---- MODULE Spec2Model ----
(***************************************************************************)
(* Model of src/src/app/app.component.ts (AppComponent): the CSV intake,   *)
(* the five answer decoders, the category aggregators and the level        *)
(* classifiers of the psychodiagnostics scoring application.               *)
(*                                                                         *)
(* Texts are sequences of UTF-16 code units (numbers): 48..57 are the      *)
(* digits, 1040..1103 the Cyrillic letters, 12644 the Hangul filler that   *)
(* the SAN questionnaire appends to its left-side values.                  *)
(***************************************************************************)
EXTENDS Integers, Sequences, FiniteSets, TLC

VARIABLES
  \* ---- AppComponent (lines 285-289) and its file reads ----
  respondents,    \* this.respondents
  fileName,       \* this.fileName
  isLoading,      \* this.isLoading
  errorMessage,   \* this.errorMessage
  pendingReads,   \* per file, the number of FileReaders whose read has not completed
  console,        \* what the last completed load wrote with console.warn / console.error,
                  \* and what openRyffDetail wrote after it
  lastEvent,      \* history: the handler that ran last and the file it ran for
  \* ---- AppComponent: the Ryff detail modal (lines 292-300) ----
  showRyffDetailModal,   \* this.showRyffDetailModal
  ryffDetailRespondent,  \* this.ryffDetailRespondent: <<>> for null, <<r>> for the record r
  ryffDetailCategory,    \* this.ryffDetailCategory
  ryffDetailQuestions,   \* this.ryffDetailQuestions
  \* ---- the pure functions checked on their own ----
  sanCell,        \* convertSanAnswer: the cell, the flags and the outcome
  shtepaRun,      \* calculateShtepaResults: the answers and the result
  prRun,          \* calculatePersonalResourceResults: the answers and the result
  decodeCell,     \* convertShtepaAnswer, convertBasicPhAnswer,
                  \* convertPersonalResourceAnswer, convertRyffAnswer, parseCSVLine:
                  \* the function, the text and the outcome
  scoreRun        \* calculateRyffResults, calculateBasicPhResults and the SAN
                  \* averages: the questionnaire, the answers and the result

appVars == <<respondents, fileName, isLoading, errorMessage, pendingReads, console, lastEvent,
             showRyffDetailModal, ryffDetailRespondent, ryffDetailCategory,
             ryffDetailQuestions>>
vars == <<respondents, fileName, isLoading, errorMessage, pendingReads, console, lastEvent,
          showRyffDetailModal, ryffDetailRespondent, ryffDetailCategory,
          ryffDetailQuestions, sanCell, shtepaRun, prRun, decodeCell, scoreRun>>

(***************************************************************************)
(* Characters and the String methods the code calls.                       *)
(***************************************************************************)
LF == 10          \* '\n', line 794
QUOTE == 34       \* '"', line 1563
COMMA == 44       \* ',', line 1565

Min(S) == CHOOSE x \in S : \A y \in S : x <= y
Max(S) == CHOOSE x \in S : \A y \in S : x >= y

\* WhiteSpace and LineTerminator code units, as String.prototype.trim strips them.
IsWhiteSpace(c) ==
  c \in {9, 10, 11, 12, 13, 32, 160, 5760, 8232, 8233, 8239, 8287, 12288, 65279}
        \cup (8192..8202)

\* String.prototype.trim
Trim(s) ==
  LET keep == {i \in 1..Len(s) : ~IsWhiteSpace(s[i])}
  IN  IF keep = {} THEN <<>> ELSE SubSeq(s, Min(keep), Max(keep))

\* String.prototype.toLowerCase on one code unit (Latin and Cyrillic letters).
LowerChar(c) ==
  IF c \in 65..90 THEN c + 32
  ELSE IF c \in 1040..1071 THEN c + 32
  ELSE IF c \in 1024..1039 THEN c + 80
  ELSE IF c = 1168 THEN 1169
  ELSE c

\* String.prototype.toLowerCase
ToLowerCase(s) == [i \in 1..Len(s) |-> LowerChar(s[i])]

\* String.prototype.includes
Includes(s, sub) ==
  \E i \in 0..(Len(s) - Len(sub)) : SubSeq(s, i + 1, i + Len(sub)) = sub

\* String.prototype.startsWith
StartsWith(s, prefix) ==
  Len(s) >= Len(prefix) /\ SubSeq(s, 1, Len(prefix)) = prefix

\* \d of a JavaScript regular expression: an ASCII digit.
IsDigit(c) == c \in 48..57

\* s.replace(/[^\d]/g, '')
RemoveNonDigits(s) == SelectSeq(s, IsDigit)

(***************************************************************************)
(* SAN configuration                                                       *)
(***************************************************************************)
reversedQuestions == <<3, 4, 9, 10, 13, 15, 16, 21, 22, 27, 28>>

positiveKeywords ==
  <<
    <<1076, 1086, 1073, 1088, 1077>>,  \* "добре"
    <<1089, 1080, 1083, 1100, 1085, 1080, 1084>>,  \* "сильним"
    <<1072, 1082, 1090, 1080, 1074, 1085, 1080, 1081>>,  \* "активний"
    <<1088, 1091, 1093, 1083, 1080, 1074, 1080, 1081>>,  \* "рухливий"
    <<1074, 1077, 1089, 1077, 1083, 1080, 1081>>,  \* "веселий"
    <<1075, 1072, 1088, 1085, 1080, 1081>>,  \* "гарний"
    <<1087, 1088, 1072, 1094, 1077, 1079, 1076, 1072, 1090, 1085, 1080, 1081>>,  \* "працездатний"
    <<1089, 1087, 1086, 1074, 1085, 1077, 1085, 1080, 1081, 32, 1089, 1080, 1083>>,  \* "сповнений сил"
    <<1096, 1074, 1080, 1076, 1082, 1080, 1081>>,  \* "швидкий"
    <<1076, 1110, 1108, 1074, 1080, 1081>>,  \* "дієвий"
    <<1097, 1072, 1089, 1083, 1080, 1074, 1080, 1081>>,  \* "щасливий"
    <<1078, 1080, 1090, 1090, 1108, 1088, 1072, 1076, 1110, 1089, 1085, 1080, 1081>>,  \* "життєрадісний"
    <<1088, 1086, 1079, 1089, 1083, 1072, 1073, 1083, 1077, 1085, 1080, 1081>>,  \* "розслаблений"
    <<1079, 1076, 1086, 1088, 1086, 1074, 1080, 1081>>,  \* "здоровий"
    <<1079, 1072, 1093, 1086, 1087, 1083, 1077, 1085, 1080, 1081>>,  \* "захоплений"
    <<1089, 1093, 1074, 1080, 1083, 1100, 1086, 1074, 1072, 1085, 1080, 1081>>,  \* "схвильований"
    <<1089, 1087, 1086, 1074, 1085, 1077, 1085, 1080, 1081, 32, 1074, 1110, 1088, 1080>>,  \* "сповнений віри"
    <<1088, 1072, 1076, 1110, 1089, 1085, 1080, 1081>>,  \* "радісний"
    <<1076, 1086, 1073, 1088, 1077, 32, 1074, 1110, 1076, 1087, 1086, 1095, 1080, 1074>>,  \* "добре відпочив"
    <<1089, 1074, 1110, 1078, 1080, 1081>>,  \* "свіжий"
    <<1079, 1073, 1091, 1076, 1078, 1077, 1085, 1080, 1081>>,  \* "збуджений"
    <<1073, 1072, 1078, 1072, 1102, 32, 1087, 1088, 1072, 1094, 1102, 1074, 1072, 1090, 1080>>,  \* "бажаю працювати"
    <<1089, 1087, 1086, 1082, 1110, 1081, 1085, 1080, 1081>>,  \* "спокійний"
    <<1086, 1087, 1090, 1080, 1084, 1110, 1089, 1090, 1080, 1095, 1085, 1080, 1081>>,  \* "оптимістичний"
    <<1074, 1080, 1090, 1088, 1080, 1074, 1072, 1083, 1080, 1081>>,  \* "витривалий"
    <<1073, 1072, 1076, 1100, 1086, 1088, 1080, 1081>>,  \* "бадьорий"
    <<1088, 1086, 1079, 1084, 1110, 1088, 1082, 1086, 1074, 1091, 1074, 1072, 1090, 1080, 32, 1083, 1077, 1075, 1082, 1086>>,  \* "розмірковувати легко"
    <<1091, 1074, 1072, 1078, 1085, 1080, 1081>>,  \* "уважний"
    <<1089, 1087, 1086, 1074, 1085, 1077, 1085, 1080, 1081, 32, 1085, 1072, 1076, 1110, 1081>>,  \* "сповнений надій"
    <<1079, 1072, 1076, 1086, 1074, 1086, 1083, 1077, 1085, 1080, 1081>>  \* "задоволений"
  >>

negativeKeywords ==
  <<
    <<1087, 1086, 1075, 1072, 1085, 1077>>,  \* "погане"
    <<1089, 1083, 1072, 1073, 1082, 1080, 1084>>,  \* "слабким"
    <<1087, 1072, 1089, 1080, 1074, 1085, 1080, 1081>>,  \* "пасивний"
    <<1084, 1072, 1083, 1086, 1088, 1091, 1093, 1083, 1080, 1074, 1080, 1081>>,  \* "малорухливий"
    <<1089, 1091, 1084, 1085, 1080, 1081>>,  \* "сумний"
    <<1087, 1086, 1075, 1072, 1085, 1080, 1081>>,  \* "поганий"
    <<1084, 1072, 1083, 1086, 1087, 1088, 1072, 1094, 1077, 1079, 1076, 1072, 1090, 1085, 1080, 1081>>,  \* "малопрацездатний"
    <<1079, 1085, 1077, 1089, 1080, 1083, 1077, 1085, 1080, 1081>>,  \* "знесилений"
    <<1087, 1086, 1074, 1110, 1083, 1100, 1085, 1080, 1081>>,  \* "повільний"
    <<1073, 1077, 1079, 1076, 1110, 1103, 1083, 1100, 1085, 1080, 1081>>,  \* "бездіяльний"
    <<1085, 1077, 1097, 1072, 1089, 1085, 1080, 1081>>,  \* "нещасний"
    <<1087, 1086, 1093, 1084, 1091, 1088, 1080, 1081>>,  \* "похмурий"
    <<1085, 1072, 1087, 1088, 1091, 1078, 1077, 1085, 1080, 1081>>,  \* "напружений"
    <<1093, 1074, 1086, 1088, 1080, 1081>>,  \* "хворий"
    <<1073, 1077, 1079, 1110, 1085, 1110, 1094, 1110, 1072, 1090, 1080, 1074, 1085, 1080, 1081>>,  \* "безініціативний"
    <<1073, 1072, 1081, 1076, 1091, 1078, 1080, 1081>>,  \* "байдужий"
    <<1079, 1085, 1077, 1074, 1110, 1088, 1077, 1085, 1080, 1081>>,  \* "зневірений"
    <<1089, 1090, 1086, 1084, 1083, 1077, 1085, 1080, 1081>>,  \* "стомлений"
    <<1074, 1080, 1089, 1085, 1072, 1078, 1077, 1085, 1080, 1081>>,  \* "виснажений"
    <<1089, 1086, 1085, 1083, 1080, 1074, 1080, 1081>>,  \* "сонливий"
    <<1073, 1072, 1078, 1072, 1102, 32, 1074, 1110, 1076, 1087, 1086, 1095, 1080, 1090, 1080>>,  \* "бажаю відпочити"
    <<1089, 1090, 1091, 1088, 1073, 1086, 1074, 1072, 1085, 1080, 1081>>,  \* "стурбований"
    <<1087, 1077, 1089, 1080, 1084, 1110, 1089, 1090, 1080, 1095, 1085, 1080, 1081>>,  \* "песимістичний"
    <<1084, 1072, 1083, 1086, 1074, 1080, 1090, 1088, 1080, 1074, 1072, 1083, 1080, 1081>>,  \* "маловитривалий"
    <<1084, 1083, 1103, 1074, 1080, 1081>>,  \* "млявий"
    <<1088, 1086, 1079, 1084, 1110, 1088, 1082, 1086, 1074, 1091, 1074, 1072, 1090, 1080, 32, 1074, 1072, 1078, 1082, 1086>>,  \* "розмірковувати важко"
    <<1085, 1077, 1091, 1074, 1072, 1078, 1085, 1080, 1081>>,  \* "неуважний"
    <<1088, 1086, 1079, 1095, 1072, 1088, 1086, 1074, 1072, 1085, 1080, 1081>>,  \* "розчарований"
    <<1085, 1077, 1079, 1072, 1076, 1086, 1074, 1086, 1083, 1077, 1085, 1080, 1081>>  \* "незадоволений"
  >>

(***************************************************************************)
(* Diagnostics: one console.error / console.warn call.                     *)
(***************************************************************************)
Diagnostic(test, kind, questionNum, email, rawValue) ==
  [test |-> test, kind |-> kind, questionNum |-> questionNum,
   email |-> email, rawValue |-> rawValue]

\* A decoder's outcome: the value returned and the diagnostics it logged.
Decoded(value) == [value |-> value, log |-> <<>>]
Failed(value, diag) == [value |-> value, log |-> <<diag>>]

(***************************************************************************)
(* convertSanAnswer                                                        *)
(***************************************************************************)
\* Lines 1015-1031: classification of a "3 (...)" text by its description.
sanExtreme(normalized, rawValue, questionNum, email) ==
  LET lowerValue == ToLowerCase(normalized)
      isPositiveExtreme ==
        \E i \in 1..Len(positiveKeywords) : Includes(lowerValue, positiveKeywords[i])
      isNegativeExtreme ==
        \E i \in 1..Len(negativeKeywords) : Includes(lowerValue, negativeKeywords[i])
  IN  IF isPositiveExtreme THEN Decoded(7)
      ELSE IF isNegativeExtreme THEN Decoded(1)
      ELSE Failed(4, Diagnostic("SAN", "Unknown value", questionNum, email, rawValue))

\* Mutant of hasSpecialChar: the marker character is never noticed.
hasSpecialCharMutNever(normalized, cleanValue) == FALSE

\* Lines 1035-1036
hasSpecialChar(normalized, cleanValue) ==
  Len(normalized) > Len(cleanValue) /\ Len(cleanValue) > 0

\* Mutant of sanMiddle: a plain "3" is scored as the extreme it might stand for.
sanMiddleMutPlainThree(normalized, rawValue, isReversed, questionNum, email) ==
  LET cleanValue == RemoveNonDigits(normalized)
      special == hasSpecialChar(normalized, cleanValue)
  IN  IF cleanValue = <<48>> THEN Decoded(4)
      ELSE IF cleanValue = <<49>> THEN
        Decoded(IF special THEN (IF isReversed THEN 3 ELSE 5)
                ELSE IF isReversed THEN 5 ELSE 3)
      ELSE IF cleanValue = <<50>> THEN
        Decoded(IF special THEN (IF isReversed THEN 2 ELSE 6)
                ELSE IF isReversed THEN 6 ELSE 2)
      ELSE IF cleanValue = <<51>> THEN
        Failed(IF isReversed THEN 1 ELSE 7,
               Diagnostic("SAN", "Plain 3", questionNum, email, rawValue))
      ELSE Failed(4, Diagnostic("SAN", "Unrecognized value", questionNum, email, rawValue))

\* Lines 1034-1058: the numeric middle values and the fallbacks.
sanMiddle(normalized, rawValue, isReversed, questionNum, email) ==
  LET cleanValue == RemoveNonDigits(normalized)
      special == hasSpecialChar(normalized, cleanValue)
  IN  IF cleanValue = <<48>> THEN Decoded(4)
      ELSE IF cleanValue = <<49>> THEN
        Decoded(IF special THEN (IF isReversed THEN 3 ELSE 5)
                ELSE IF isReversed THEN 5 ELSE 3)
      ELSE IF cleanValue = <<50>> THEN
        Decoded(IF special THEN (IF isReversed THEN 2 ELSE 6)
                ELSE IF isReversed THEN 6 ELSE 2)
      ELSE IF cleanValue = <<51>> THEN
        Failed(4, Diagnostic("SAN", "Plain 3", questionNum, email, rawValue))
      ELSE Failed(4, Diagnostic("SAN", "Unrecognized value", questionNum, email, rawValue))

\* Lines 938-1059: value and diagnostics of one SAN cell.
sanAnswer(rawValue, isReversed, questionNum, email) ==
  LET normalized == Trim(rawValue)
  IN  IF StartsWith(normalized, <<51, 32, 40>>) \/ StartsWith(normalized, <<51, 40>>)
      THEN sanExtreme(normalized, rawValue, questionNum, email)
      ELSE sanMiddle(normalized, rawValue, isReversed, questionNum, email)

convertSanAnswer(rawValue, isReversed, questionNum, email) ==
  sanAnswer(rawValue, isReversed, questionNum, email).value

(***************************************************************************)
(* parseInt(text, 10)                                                      *)
(***************************************************************************)
\* The value of the decimal digits ds[1..n].
RECURSIVE DigitsValue(_, _)
DigitsValue(ds, n) ==
  IF n = 0 THEN 0 ELSE DigitsValue(ds, n - 1) * 10 + (ds[n] - 48)

\* parseInt(s, 10): leading white space, an optional sign, then the longest run of
\* digits; NaN when that run is empty.
ParseInt(s) ==
  LET body == Trim(s)
      signed == Len(body) > 0 /\ body[1] \in {43, 45}
      rest == IF signed THEN Tail(body) ELSE body
      stops == {i \in 1..Len(rest) : ~IsDigit(rest[i])}
      n == IF stops = {} THEN Len(rest) ELSE Min(stops) - 1
      magnitude == DigitsValue(rest, n)
  IN  IF n = 0 THEN [isNaN |-> TRUE, value |-> 0]
      ELSE [isNaN |-> FALSE,
            value |-> IF signed /\ body[1] = 45 THEN 0 - magnitude ELSE magnitude]

(***************************************************************************)
(* convertShtepaAnswer                                                     *)
(***************************************************************************)
\* Mutant of shtepaAnswer: the text is compared as it was typed.
shtepaAnswerMutCase(rawValue, questionNum, email) ==
  LET normalized == Trim(rawValue)
  IN  IF normalized = <<1090, 1072, 1082>> \/ normalized = <<43>>
      THEN Decoded(TRUE)
      ELSE IF normalized = <<1085, 1110>> \/ normalized = <<45>>
      THEN Decoded(FALSE)
      ELSE Failed(FALSE, Diagnostic("Shtepa", "Unrecognized value", questionNum, email,
                                    rawValue))

\* Lines 1065-1086
shtepaAnswer(rawValue, questionNum, email) ==
  LET normalized == ToLowerCase(Trim(rawValue))
  IN  IF normalized = <<1090, 1072, 1082>> \/ normalized = <<43>>          \* "так", "+"
      THEN Decoded(TRUE)
      ELSE IF normalized = <<1085, 1110>> \/ normalized = <<45>>     \* "ні", "-"
      THEN Decoded(FALSE)
      ELSE Failed(FALSE, Diagnostic("Shtepa", "Unrecognized value", questionNum, email,
                                    rawValue))

convertShtepaAnswer(rawValue, questionNum, email) ==
  shtepaAnswer(rawValue, questionNum, email).value

(***************************************************************************)
(* convertBasicPhAnswer                                                    *)
(***************************************************************************)
\* " користуюся цим способом, щоб впоратися зі складною ситуацією", the common
\* ending of the seven full answers.
basicPhEnding ==
  <<32, 1082, 1086, 1088, 1080, 1089, 1090, 1091, 1102, 1089, 1103, 32, 1094,
    1080, 1084, 32, 1089, 1087, 1086, 1089, 1086, 1073, 1086, 1084, 44, 32, 1097,
    1086, 1073, 32, 1074, 1087, 1086, 1088, 1072, 1090, 1080, 1089, 1103, 32,
    1079, 1110, 32, 1089, 1082, 1083, 1072, 1076, 1085, 1086, 1102, 32, 1089,
    1080, 1090, 1091, 1072, 1094, 1110, 1108, 1102>>

\* Lines 1110-1118: the full answers, answerMap[i] scoring i - 1.
answerMap ==
  <<
    <<1085, 1110, 1082, 1086, 1083, 1080, 32, 1085, 1077>> \o basicPhEnding,  \* "ніколи не ..." : 0
    <<1088, 1110, 1076, 1082, 1086>> \o basicPhEnding,  \* "рідко ..." : 1
    <<1110, 1085, 1086, 1076, 1110>> \o basicPhEnding,  \* "іноді ..." : 2
    <<1087, 1077, 1088, 1110, 1086, 1076, 1080, 1095, 1085, 1086>> \o basicPhEnding,  \* "періодично ..." : 3
    <<1095, 1072, 1089, 1090, 1086>> \o basicPhEnding,  \* "часто ..." : 4
    <<1084, 1072, 1081, 1078, 1077, 32, 1079, 1072, 1074, 1078, 1076, 1080>> \o basicPhEnding,  \* "майже завжди ..." : 5
    <<1079, 1072, 1074, 1078, 1076, 1080>> \o basicPhEnding  \* "завжди ..." : 6
  >>

\* Lines 1126-1132: the keywords in the order they are tried, basicPhKeywords[i]
\* scoring i - 1.
basicPhKeywords ==
  <<
    <<1085, 1110, 1082, 1086, 1083, 1080>>,  \* "ніколи"
    <<1088, 1110, 1076, 1082, 1086>>,  \* "рідко"
    <<1110, 1085, 1086, 1076, 1110>>,  \* "іноді"
    <<1087, 1077, 1088, 1110, 1086, 1076, 1080, 1095, 1085, 1086>>,  \* "періодично"
    <<1095, 1072, 1089, 1090, 1086>>,  \* "часто"
    <<1084, 1072, 1081, 1078, 1077, 32, 1079, 1072, 1074, 1078, 1076, 1080>>,  \* "майже завжди"
    <<1079, 1072, 1074, 1078, 1076, 1080>>  \* "завжди"
  >>

\* Mutant of basicPhAnswer: of the keywords a text contains the last one decides.
basicPhAnswerMutLast(rawValue, questionNum, email) ==
  LET normalized == ToLowerCase(Trim(rawValue))
      exact == {i \in 1..Len(answerMap) : answerMap[i] = normalized}
      hits == {i \in 1..Len(basicPhKeywords) : Includes(normalized, basicPhKeywords[i])}
      numValue == ParseInt(normalized)
  IN  IF exact # {} THEN Decoded(Min(exact) - 1)
      ELSE IF hits # {} THEN Decoded(Max(hits) - 1)
      ELSE IF ~numValue.isNaN /\ numValue.value >= 0 /\ numValue.value <= 6
      THEN Decoded(numValue.value)
      ELSE Failed(0, Diagnostic("Basic Ph", "Unrecognized value", questionNum, email,
                                rawValue))

\* Lines 1102-1145
basicPhAnswer(rawValue, questionNum, email) ==
  LET normalized == ToLowerCase(Trim(rawValue))
      exact == {i \in 1..Len(answerMap) : answerMap[i] = normalized}
      hits == {i \in 1..Len(basicPhKeywords) : Includes(normalized, basicPhKeywords[i])}
      numValue == ParseInt(normalized)
  IN  IF exact # {} THEN Decoded(Min(exact) - 1)
      ELSE IF hits # {} THEN Decoded(Min(hits) - 1)
      ELSE IF ~numValue.isNaN /\ numValue.value >= 0 /\ numValue.value <= 6
      THEN Decoded(numValue.value)
      ELSE Failed(0, Diagnostic("Basic Ph", "Unrecognized value", questionNum, email,
                                rawValue))

convertBasicPhAnswer(rawValue, questionNum, email) ==
  basicPhAnswer(rawValue, questionNum, email).value

(***************************************************************************)
(* convertPersonalResourceAnswer                                           *)
(***************************************************************************)
\* Lines 1166-1199: the phrases of each level, in the order the levels are tried.
personalResourcePhrases ==
  <<
    {
      <<1087, 1086, 1074, 1085, 1110, 1089, 1090, 1102, 32, 1085, 1077, 32, 1087,
        1086, 1075, 1086, 1076, 1078, 1091, 1102, 1089, 1100>>,  \* "повністю не погоджуюсь"
      <<1087, 1086, 1074, 1085, 1110, 1089, 1090, 1102, 32, 1085, 1077, 32, 1087,
        1086, 1075, 1086, 1076, 1078, 1091, 1102, 1089, 1103>>,  \* "повністю не погоджуюся"
      <<1084, 1072, 1081, 1078, 1077, 32, 1085, 1110, 1082, 1086, 1083, 1080>>  \* "майже ніколи"
    },
    {
      <<1095, 1072, 1089, 1090, 1082, 1086, 1074, 1086, 32, 1085, 1077, 32, 1087,
        1086, 1075, 1086, 1076, 1078, 1091, 1089, 1100>>,  \* "частково не погоджусь"
      <<1095, 1072, 1089, 1090, 1082, 1086, 1074, 1086, 32, 1085, 1077, 32, 1087,
        1086, 1075, 1086, 1076, 1078, 1091, 1102, 1089, 1103>>,  \* "частково не погоджуюся"
      <<1088, 1110, 1076, 1082, 1086>>  \* "рідко"
    },
    {
      <<1074, 1072, 1078, 1082, 1086, 32, 1074, 1080, 1079, 1085, 1072, 1095,
        1080, 1090, 1080, 1089, 1103>>,  \* "важко визначитися"
      <<1095, 1072, 1089, 32, 1074, 1110, 1076, 32, 1095, 1072, 1089, 1091>>  \* "час від часу"
    },
    {
      <<1095, 1072, 1089, 1090, 1082, 1086, 1074, 1086, 32, 1087, 1086, 1075,
        1086, 1076, 1078, 1091, 1102, 1089, 1100>>,  \* "частково погоджуюсь"
      <<1095, 1072, 1089, 1090, 1082, 1086, 1074, 1086, 32, 1087, 1086, 1075,
        1086, 1076, 1078, 1091, 1102, 1089, 1103>>,  \* "частково погоджуюся"
      <<1095, 1072, 1089, 1090, 1086>>  \* "часто"
    },
    {
      <<1087, 1086, 1074, 1085, 1110, 1089, 1090, 1102, 32, 1087, 1086, 1075,
        1086, 1076, 1078, 1091, 1102, 1089, 1100>>,  \* "повністю погоджуюсь"
      <<1087, 1086, 1074, 1085, 1110, 1089, 1090, 1102, 32, 1087, 1086, 1075,
        1086, 1076, 1078, 1091, 1102, 1089, 1103>>,  \* "повністю погоджуюся"
      <<1084, 1072, 1081, 1078, 1077, 32, 1079, 1072, 1074, 1078, 1076, 1080>>  \* "майже завжди"
    }
  >>

\* Mutant of personalResourceAnswer: the text is compared as it was typed.
personalResourceAnswerMutCase(rawValue, questionNum, email) ==
  LET normalized == Trim(rawValue)
      hits == {i \in 1..Len(personalResourcePhrases) :
                 \E phrase \in personalResourcePhrases[i] : Includes(normalized, phrase)}
      numValue == ParseInt(normalized)
  IN  IF hits # {} THEN Decoded(Min(hits))
      ELSE IF ~numValue.isNaN /\ numValue.value >= 1 /\ numValue.value <= 5
      THEN Decoded(numValue.value)
      ELSE Failed(3, Diagnostic("Personal Resources", "Unrecognized value", questionNum,
                                email, rawValue))

\* Lines 1157-1212
personalResourceAnswer(rawValue, questionNum, email) ==
  LET normalized == ToLowerCase(Trim(rawValue))
      hits == {i \in 1..Len(personalResourcePhrases) :
                 \E phrase \in personalResourcePhrases[i] : Includes(normalized, phrase)}
      numValue == ParseInt(normalized)
  IN  IF hits # {} THEN Decoded(Min(hits))
      ELSE IF ~numValue.isNaN /\ numValue.value >= 1 /\ numValue.value <= 5
      THEN Decoded(numValue.value)
      ELSE Failed(3, Diagnostic("Personal Resources", "Unrecognized value", questionNum,
                                email, rawValue))

convertPersonalResourceAnswer(rawValue, questionNum, email) ==
  personalResourceAnswer(rawValue, questionNum, email).value

(***************************************************************************)
(* convertRyffAnswer                                                       *)
(***************************************************************************)
\* Lines 1427-1432: the phrases in the order they are tried, ryffPhrases[i] scoring i.
ryffPhrases ==
  <<
    <<1087, 1086, 1074, 1085, 1110, 1089, 1090, 1102, 32, 1085, 1077, 32, 1079,
      1075, 1086, 1076, 1077, 1085>>,  \* "повністю не згоден"
    <<1079, 1076, 1077, 1073, 1110, 1083, 1100, 1096, 1086, 1075, 1086, 32, 1085,
      1077, 32, 1079, 1075, 1086, 1076, 1077, 1085>>,  \* "здебільшого не згоден"
    <<1076, 1077, 32, 1074, 32, 1095, 1086, 1084, 1091, 32, 1085, 1077, 32, 1079,
      1075, 1086, 1076, 1077, 1085>>,  \* "де в чому не згоден"
    <<1076, 1077, 32, 1074, 32, 1095, 1086, 1084, 1091, 32, 1079, 1075, 1086,
      1076, 1077, 1085>>,  \* "де в чому згоден"
    <<1096, 1074, 1080, 1076, 1096, 1077, 32, 1079, 1075, 1086, 1076, 1077, 1085>>,  \* "швидше згоден"
    <<1087, 1086, 1074, 1085, 1110, 1089, 1090, 1102, 32, 1079, 1075, 1086, 1076,
      1077, 1085>>  \* "повністю згоден"
  >>

\* Mutant of ryffAnswer: a phrase counts only when it is the whole text.
ryffAnswerMutExact(rawValue, questionNum, email) ==
  LET normalized == ToLowerCase(Trim(rawValue))
      hits == {i \in 1..Len(ryffPhrases) : normalized = ryffPhrases[i]}
      numValue == ParseInt(normalized)
  IN  IF hits # {} THEN Decoded(Min(hits))
      ELSE IF ~numValue.isNaN /\ numValue.value >= 1 /\ numValue.value <= 6
      THEN Decoded(numValue.value)
      ELSE Failed(3, Diagnostic("Ryff", "Unrecognized value", questionNum, email,
                                rawValue))

\* Mutant of ryffAnswer: a parsed number is returned whatever its size.
ryffAnswerMutAnyNumber(rawValue, questionNum, email) ==
  LET normalized == ToLowerCase(Trim(rawValue))
      hits == {i \in 1..Len(ryffPhrases) : Includes(normalized, ryffPhrases[i])}
      numValue == ParseInt(normalized)
  IN  IF hits # {} THEN Decoded(Min(hits))
      ELSE IF ~numValue.isNaN
      THEN Decoded(numValue.value)
      ELSE Failed(3, Diagnostic("Ryff", "Unrecognized value", questionNum, email,
                                rawValue))

\* Lines 1419-1445
ryffAnswer(rawValue, questionNum, email) ==
  LET normalized == ToLowerCase(Trim(rawValue))
      hits == {i \in 1..Len(ryffPhrases) : Includes(normalized, ryffPhrases[i])}
      numValue == ParseInt(normalized)
  IN  IF hits # {} THEN Decoded(Min(hits))
      ELSE IF ~numValue.isNaN /\ numValue.value >= 1 /\ numValue.value <= 6
      THEN Decoded(numValue.value)
      ELSE Failed(3, Diagnostic("Ryff", "Unrecognized value", questionNum, email,
                                rawValue))

convertRyffAnswer(rawValue, questionNum, email) ==
  ryffAnswer(rawValue, questionNum, email).value

(***************************************************************************)
(* SHTEPA configuration                                                    *)
(***************************************************************************)
\* Line 846: the number of Shtepa answer columns.
ShtepaQuestionCount == 67

\* Lines 337-520: 14 categories of 8 (question number, expected answer) slots.
shtepaCategories ==
  <<
    \* Упевненість у собі
    [name |-> "Self-confidence",
     questions |-> <<
       [num |-> 2, expected |-> TRUE], [num |-> 3, expected |-> TRUE], [num |-> 9, expected |-> FALSE], [num |-> 11, expected |-> TRUE],
       [num |-> 12, expected |-> FALSE], [num |-> 21, expected |-> FALSE], [num |-> 22, expected |-> FALSE], [num |-> 55, expected |-> TRUE]
     >>],
    \* Доброта до людей
    [name |-> "Kindness to people",
     questions |-> <<
       [num |-> 4, expected |-> TRUE], [num |-> 5, expected |-> TRUE], [num |-> 15, expected |-> FALSE], [num |-> 16, expected |-> FALSE],
       [num |-> 17, expected |-> FALSE], [num |-> 26, expected |-> FALSE], [num |-> 27, expected |-> FALSE], [num |-> 28, expected |-> TRUE]
     >>],
    \* Допомога іншим
    [name |-> "Helping others",
     questions |-> <<
       [num |-> 4, expected |-> TRUE], [num |-> 6, expected |-> TRUE], [num |-> 10, expected |-> FALSE], [num |-> 17, expected |-> FALSE],
       [num |-> 18, expected |-> FALSE], [num |-> 36, expected |-> TRUE], [num |-> 37, expected |-> TRUE], [num |-> 38, expected |-> TRUE]
     >>],
    \* Успіх
    [name |-> "Success",
     questions |-> <<
       [num |-> 1, expected |-> TRUE], [num |-> 12, expected |-> FALSE], [num |-> 14, expected |-> TRUE], [num |-> 29, expected |-> TRUE],
       [num |-> 34, expected |-> TRUE], [num |-> 40, expected |-> TRUE], [num |-> 42, expected |-> FALSE], [num |-> 55, expected |-> TRUE]
     >>],
    \* Любов
    [name |-> "Love",
     questions |-> <<
       [num |-> 7, expected |-> FALSE], [num |-> 8, expected |-> FALSE], [num |-> 11, expected |-> TRUE], [num |-> 30, expected |-> TRUE],
       [num |-> 33, expected |-> FALSE], [num |-> 51, expected |-> TRUE], [num |-> 52, expected |-> TRUE], [num |-> 53, expected |-> TRUE]
     >>],
    \* Творчість
    [name |-> "Creativity",
     questions |-> <<
       [num |-> 23, expected |-> FALSE], [num |-> 24, expected |-> FALSE], [num |-> 25, expected |-> FALSE], [num |-> 31, expected |-> TRUE],
       [num |-> 37, expected |-> TRUE], [num |-> 40, expected |-> TRUE], [num |-> 53, expected |-> TRUE], [num |-> 54, expected |-> TRUE]
     >>],
    \* Віра у добро
    [name |-> "Faith in good",
     questions |-> <<
       [num |-> 1, expected |-> TRUE], [num |-> 6, expected |-> TRUE], [num |-> 7, expected |-> FALSE], [num |-> 13, expected |-> FALSE],
       [num |-> 16, expected |-> FALSE], [num |-> 28, expected |-> TRUE], [num |-> 34, expected |-> TRUE], [num |-> 35, expected |-> TRUE]
     >>],
    \* Прагнення до мудрості
    [name |-> "Striving for wisdom",
     questions |-> <<
       [num |-> 33, expected |-> FALSE], [num |-> 36, expected |-> TRUE], [num |-> 39, expected |-> TRUE], [num |-> 45, expected |-> FALSE],
       [num |-> 46, expected |-> FALSE], [num |-> 47, expected |-> FALSE], [num |-> 54, expected |-> TRUE], [num |-> 55, expected |-> TRUE]
     >>],
    \* Робота над собою
    [name |-> "Work on oneself",
     questions |-> <<
       [num |-> 11, expected |-> TRUE], [num |-> 41, expected |-> TRUE], [num |-> 43, expected |-> FALSE], [num |-> 48, expected |-> FALSE],
       [num |-> 49, expected |-> FALSE], [num |-> 50, expected |-> FALSE], [num |-> 52, expected |-> TRUE], [num |-> 54, expected |-> TRUE]
     >>],
    \* Самореалізація у професії
    [name |-> "Self-realization in profession",
     questions |-> <<
       [num |-> 11, expected |-> TRUE], [num |-> 23, expected |-> FALSE], [num |-> 24, expected |-> FALSE], [num |-> 40, expected |-> TRUE],
       [num |-> 42, expected |-> FALSE], [num |-> 44, expected |-> FALSE], [num |-> 47, expected |-> FALSE], [num |-> 53, expected |-> TRUE]
     >>],
    \* Відповідальність
    [name |-> "Responsibility",
     questions |-> <<
       [num |-> 8, expected |-> FALSE], [num |-> 10, expected |-> FALSE], [num |-> 19, expected |-> FALSE], [num |-> 20, expected |-> TRUE],
       [num |-> 22, expected |-> FALSE], [num |-> 32, expected |-> TRUE], [num |-> 51, expected |-> TRUE], [num |-> 52, expected |-> TRUE]
     >>],
    \* Знання власних ресурсів
    [name |-> "Knowing own resources",
     questions |-> <<
       [num |-> 57, expected |-> FALSE], [num |-> 59, expected |-> FALSE], [num |-> 60, expected |-> TRUE], [num |-> 61, expected |-> TRUE],
       [num |-> 62, expected |-> FALSE], [num |-> 63, expected |-> FALSE], [num |-> 66, expected |-> FALSE], [num |-> 67, expected |-> TRUE]
     >>],
    \* Уміння оновлювати власні ресурси
    [name |-> "Ability to renew own resources",
     questions |-> <<
       [num |-> 56, expected |-> TRUE], [num |-> 58, expected |-> TRUE], [num |-> 60, expected |-> TRUE], [num |-> 61, expected |-> TRUE],
       [num |-> 62, expected |-> FALSE], [num |-> 63, expected |-> FALSE], [num |-> 64, expected |-> FALSE], [num |-> 66, expected |-> FALSE]
     >>],
    \* Уміння використовувати власні ресурси
    [name |-> "Ability to use own resources",
     questions |-> <<
       [num |-> 58, expected |-> TRUE], [num |-> 59, expected |-> FALSE], [num |-> 61, expected |-> TRUE], [num |-> 63, expected |-> FALSE],
       [num |-> 64, expected |-> FALSE], [num |-> 65, expected |-> TRUE], [num |-> 66, expected |-> FALSE], [num |-> 67, expected |-> TRUE]
     >>]
  >>

(***************************************************************************)
(* calculateShtepaResults                                                  *)
(* A JavaScript array is modelled as a sequence: answers[q.num - 1] of the *)
(* code is answers[q.num] here.                                            *)
(***************************************************************************)
\* Mutant of shtepaCategoryScore: a point for every "yes", whatever is expected.
RECURSIVE shtepaCategoryScoreMutYes(_, _, _)
shtepaCategoryScoreMutYes(questions, answers, j) ==
  IF j = 0 THEN 0
  ELSE shtepaCategoryScoreMutYes(questions, answers, j - 1)
         + (IF answers[questions[j].num] = TRUE THEN 1 ELSE 0)

\* Lines 1234-1241: the score after the first j slots of a category.
RECURSIVE shtepaCategoryScore(_, _, _)
shtepaCategoryScore(questions, answers, j) ==
  IF j = 0 THEN 0
  ELSE shtepaCategoryScore(questions, answers, j - 1)
         + (IF answers[questions[j].num] = questions[j].expected THEN 1 ELSE 0)

\* Mutant of shtepaTotalLevel: the first band ends below 56 instead of at 56.
shtepaTotalLevelMutStrict(totalScore) ==
  IF totalScore < 56 THEN [level |-> "not diagnosed", class |-> "not-diagnosed"]
  ELSE IF totalScore <= 69 THEN [level |-> "low level", class |-> "low"]
  ELSE IF totalScore <= 92 THEN [level |-> "medium level", class |-> "medium"]
  ELSE IF totalScore <= 106 THEN [level |-> "high level", class |-> "high"]
  ELSE [level |-> "doubtful data", class |-> "doubtful"]

\* Lines 1250-1269: the five bands of the total. The labels stand for the Ukrainian
\* ones: "Психологічна ресурсність не діагностується", "Низький рівень",
\* "Середній рівень", "Високий рівень", "Сумнівні дані".
shtepaTotalLevel(totalScore) ==
  IF totalScore <= 56 THEN [level |-> "not diagnosed", class |-> "not-diagnosed"]
  ELSE IF totalScore <= 69 THEN [level |-> "low level", class |-> "low"]
  ELSE IF totalScore <= 92 THEN [level |-> "medium level", class |-> "medium"]
  ELSE IF totalScore <= 106 THEN [level |-> "high level", class |-> "high"]
  ELSE [level |-> "doubtful data", class |-> "doubtful"]

\* Mutant of shtepaTotalLoop: the total is overwritten, not accumulated.
shtepaTotalLoopMutLast(categories, c) ==
  IF c = 0 THEN 0 ELSE categories[c].score

\* Lines 1231, 1247: totalScore after the first c categories were pushed.
RECURSIVE shtepaTotalLoop(_, _)
shtepaTotalLoop(categories, c) ==
  IF c = 0 THEN 0 ELSE shtepaTotalLoop(categories, c - 1) + categories[c].score

\* Lines 1229-1272
calculateShtepaResults(answers) ==
  LET categories ==
        [c \in 1..Len(shtepaCategories) |->
           [name |-> shtepaCategories[c].name,
            score |-> shtepaCategoryScore(shtepaCategories[c].questions, answers,
                                          Len(shtepaCategories[c].questions)),
            maxScore |-> Len(shtepaCategories[c].questions)]]
      totalScore == shtepaTotalLoop(categories, Len(categories))
      lvl == shtepaTotalLevel(totalScore)
  IN  [categories |-> categories, totalScore |-> totalScore,
       totalLevel |-> lvl.level, totalLevelClass |-> lvl.class]

(***************************************************************************)
(* calculatePersonalResourceResults                                        *)
(***************************************************************************)
\* Line 868: the number of Personal Resources answer columns.
PrQuestionCount == 13

personalResourceSufficiencyQuestions == <<1, 2, 4, 5, 9, 10>>
personalResourceCopingQuestions == <<3, 6, 8, 12>>
personalResourceExhaustionQuestions == <<7, 11, 13>>

\* Lines 1315-1328: score after the first j question numbers of a category.
RECURSIVE personalResourceSum(_, _, _)
personalResourceSum(questionNumbers, answers, j) ==
  IF j = 0 THEN 0
  ELSE personalResourceSum(questionNumbers, answers, j - 1) + answers[questionNumbers[j]]

\* Mutant of getSufficiencyLevel: a score at a bound falls in the outer band.
getSufficiencyLevelMutOuter(score) ==
  IF score <= 13 THEN [level |-> "Low", class |-> "low"]
  ELSE IF score < 21 THEN [level |-> "Medium", class |-> "medium"]
  ELSE [level |-> "High", class |-> "high"]

\* Lines 1331-1337. "Низький" / "Середній" / "Високий" are written Low / Medium / High.
getSufficiencyLevel(score) ==
  IF score < 13 THEN [level |-> "Low", class |-> "low"]
  ELSE IF score <= 21 THEN [level |-> "Medium", class |-> "medium"]
  ELSE [level |-> "High", class |-> "high"]

\* Lines 1339-1345
getCopingLevel(score) ==
  IF score < 13 THEN [level |-> "Low", class |-> "low"]
  ELSE IF score <= 18 THEN [level |-> "Medium", class |-> "medium"]
  ELSE [level |-> "High", class |-> "high"]

\* Mutant of getExhaustionLevel: the class follows the label.
getExhaustionLevelMutPlain(score) ==
  IF score < 8 THEN [level |-> "Low", class |-> "low"]
  ELSE IF score <= 12 THEN [level |-> "Medium", class |-> "medium"]
  ELSE [level |-> "High", class |-> "high"]

\* Lines 1347-1355: the classes are inverted, a low exhaustion is good.
getExhaustionLevel(score) ==
  IF score < 8 THEN [level |-> "Low", class |-> "high"]
  ELSE IF score <= 12 THEN [level |-> "Medium", class |-> "medium"]
  ELSE [level |-> "High", class |-> "low"]

\* Mutant of personalResourceTotal: exhaustion is added like the other two.
personalResourceTotalMutAdd(sufficiencyScore, copingScore, exhaustionScore) ==
  sufficiencyScore + copingScore + exhaustionScore

\* Line 1362
personalResourceTotal(sufficiencyScore, copingScore, exhaustionScore) ==
  sufficiencyScore + copingScore - exhaustionScore

\* Lines 1364-1376
personalResourceTotalLevel(totalScore) ==
  IF totalScore < 15 THEN [level |-> "Low", class |-> "low"]
  ELSE IF totalScore <= 30 THEN [level |-> "Medium", class |-> "medium"]
  ELSE [level |-> "High", class |-> "high"]

\* Lines 1313-1404
calculatePersonalResourceResults(answers) ==
  LET sufficiencyScore ==
        personalResourceSum(personalResourceSufficiencyQuestions, answers,
                            Len(personalResourceSufficiencyQuestions))
      copingScore ==
        personalResourceSum(personalResourceCopingQuestions, answers,
                            Len(personalResourceCopingQuestions))
      exhaustionScore ==
        personalResourceSum(personalResourceExhaustionQuestions, answers,
                            Len(personalResourceExhaustionQuestions))
      sufficiencyLevel == getSufficiencyLevel(sufficiencyScore)
      copingLevel == getCopingLevel(copingScore)
      exhaustionLevel == getExhaustionLevel(exhaustionScore)
      totalScore == personalResourceTotal(sufficiencyScore, copingScore, exhaustionScore)
      total == personalResourceTotalLevel(totalScore)
  IN  [sufficiency |->
         [name |-> "Sufficiency", score |-> sufficiencyScore, maxScore |-> 30,
          level |-> sufficiencyLevel.level, levelClass |-> sufficiencyLevel.class],
       copingStrategies |->
         [name |-> "Coping strategies", score |-> copingScore, maxScore |-> 20,
          level |-> copingLevel.level, levelClass |-> copingLevel.class],
       emotionalExhaustion |->
         [name |-> "Emotional exhaustion", score |-> exhaustionScore, maxScore |-> 15,
          level |-> exhaustionLevel.level, levelClass |-> exhaustionLevel.class],
       totalScore |-> totalScore,
       totalLevel |-> total.level,
       totalLevelClass |-> total.class]

(***************************************************************************)
(* calculateAverage                                                        *)
(***************************************************************************)
wellbeingQuestions == <<1, 2, 7, 8, 13, 14, 19, 20, 25, 26>>
activityQuestions == <<3, 4, 9, 10, 15, 16, 21, 22, 27, 28>>
\* Mutant of moodQuestions: question 1 stands where question 30 should.
moodQuestionsMutOverlap == <<5, 6, 11, 12, 17, 18, 23, 24, 29, 1>>
moodQuestions == <<5, 6, 11, 12, 17, 18, 23, 24, 29, 30>>

\* Line 1551: the sum of the first j mapped values.
RECURSIVE averageSum(_, _, _)
averageSum(answers, questionNumbers, j) ==
  IF j = 0 THEN 0
  ELSE averageSum(answers, questionNumbers, j - 1) + answers[questionNumbers[j]]

\* Mutant of calculateAverage: the sum is divided by the number of all answers.
calculateAverageMutAll(answers, questionNumbers) ==
  LET sum == averageSum(answers, questionNumbers, Len(questionNumbers))
      length == Len(answers)
  IN  (2 * sum * 100 + length) \div (2 * length)

\* Lines 1549-1553. The result is a number with two decimals; it is kept in
\* hundredths: Math.round(x * 100) for x = sum / length, halves rounded up.
calculateAverage(answers, questionNumbers) ==
  LET sum == averageSum(answers, questionNumbers, Len(questionNumbers))
      length == Len(questionNumbers)
  IN  (2 * sum * 100 + length) \div (2 * length)

(***************************************************************************)
(* calculateBasicPhResults                                                 *)
(***************************************************************************)
\* Lines 532-543. The names stand for "Віра, переконання", "Емоції, почуття",
\* "Соціальні зв'язки", "Уява, мрії", "Когнітивні стратегії", "Тілесні ресурси".
basicPhCategories ==
  <<
    [code |-> "B", name |-> "Belief", questions |-> <<1, 7, 13, 19, 25, 31>>],
    [code |-> "A", name |-> "Affect", questions |-> <<2, 8, 14, 20, 26, 32>>],
    [code |-> "S", name |-> "Social", questions |-> <<3, 9, 15, 21, 27, 33>>],
    [code |-> "I", name |-> "Imagination", questions |-> <<4, 10, 16, 22, 28, 34>>],
    [code |-> "C", name |-> "Cognition", questions |-> <<5, 11, 17, 23, 29, 35>>],
    [code |-> "Ph", name |-> "Physical", questions |-> <<6, 12, 18, 24, 30, 36>>]
  >>

\* Mutant of basicPhCategoryScore: the first question of a category is not counted.
RECURSIVE basicPhCategoryScoreMutSkip(_, _, _)
basicPhCategoryScoreMutSkip(questions, answers, j) ==
  IF j <= 1 THEN 0
  ELSE basicPhCategoryScoreMutSkip(questions, answers, j - 1) + answers[questions[j]]

\* Lines 1279-1282: the score after the first j questions of a category.
RECURSIVE basicPhCategoryScore(_, _, _)
basicPhCategoryScore(questions, answers, j) ==
  IF j = 0 THEN 0
  ELSE basicPhCategoryScore(questions, answers, j - 1) + answers[questions[j]]

\* Lines 1276, 1289: totalScore after the first c categories were pushed.
RECURSIVE basicPhTotalLoop(_, _)
basicPhTotalLoop(categories, c) ==
  IF c = 0 THEN 0 ELSE basicPhTotalLoop(categories, c - 1) + categories[c].score

\* Lines 1274-1293
calculateBasicPhResults(answers) ==
  LET categories ==
        [c \in 1..Len(basicPhCategories) |->
           [code |-> basicPhCategories[c].code,
            name |-> basicPhCategories[c].name,
            score |-> basicPhCategoryScore(basicPhCategories[c].questions, answers,
                                           Len(basicPhCategories[c].questions)),
            maxScore |-> 36]]
  IN  [categories |-> categories,
       totalScore |-> basicPhTotalLoop(categories, Len(categories))]

(***************************************************************************)
(* calculateRyffResults                                                    *)
(***************************************************************************)
\* Lines 576-715: the six categories, each 14 (question number, reversed) slots with
\* its two thresholds. The names stand for "Відносини", "Автономія", "Середовище",
\* "Зростання", "Цілі", "Самосприйняття".
ryffCategories ==
  [
    relationships |->
      [name |-> "Relationships",
       questions |-> <<
         [num |-> 1, isReversed |-> FALSE], [num |-> 7, isReversed |-> TRUE], [num |-> 13, isReversed |-> TRUE],
         [num |-> 19, isReversed |-> FALSE], [num |-> 25, isReversed |-> FALSE], [num |-> 31, isReversed |-> TRUE],
         [num |-> 37, isReversed |-> FALSE], [num |-> 43, isReversed |-> TRUE], [num |-> 49, isReversed |-> FALSE],
         [num |-> 55, isReversed |-> TRUE], [num |-> 61, isReversed |-> TRUE], [num |-> 67, isReversed |-> FALSE],
         [num |-> 73, isReversed |-> TRUE], [num |-> 79, isReversed |-> FALSE]
       >>,
       lowThreshold |-> 53, highThreshold |-> 74],
    autonomy |->
      [name |-> "Autonomy",
       questions |-> <<
         [num |-> 2, isReversed |-> TRUE], [num |-> 8, isReversed |-> FALSE], [num |-> 14, isReversed |-> FALSE],
         [num |-> 20, isReversed |-> TRUE], [num |-> 26, isReversed |-> FALSE], [num |-> 32, isReversed |-> TRUE],
         [num |-> 38, isReversed |-> FALSE], [num |-> 44, isReversed |-> TRUE], [num |-> 50, isReversed |-> FALSE],
         [num |-> 56, isReversed |-> TRUE], [num |-> 62, isReversed |-> TRUE], [num |-> 68, isReversed |-> FALSE],
         [num |-> 74, isReversed |-> TRUE], [num |-> 80, isReversed |-> FALSE]
       >>,
       lowThreshold |-> 48, highThreshold |-> 62],
    environment |->
      [name |-> "Environment",
       questions |-> <<
         [num |-> 3, isReversed |-> FALSE], [num |-> 9, isReversed |-> TRUE], [num |-> 15, isReversed |-> TRUE],
         [num |-> 21, isReversed |-> FALSE], [num |-> 27, isReversed |-> TRUE], [num |-> 33, isReversed |-> FALSE],
         [num |-> 39, isReversed |-> FALSE], [num |-> 45, isReversed |-> TRUE], [num |-> 51, isReversed |-> FALSE],
         [num |-> 57, isReversed |-> FALSE], [num |-> 63, isReversed |-> TRUE], [num |-> 69, isReversed |-> FALSE],
         [num |-> 75, isReversed |-> TRUE], [num |-> 81, isReversed |-> FALSE]
       >>,
       lowThreshold |-> 51, highThreshold |-> 71],
    growth |->
      [name |-> "Growth",
       questions |-> <<
         [num |-> 4, isReversed |-> TRUE], [num |-> 10, isReversed |-> FALSE], [num |-> 16, isReversed |-> FALSE],
         [num |-> 22, isReversed |-> TRUE], [num |-> 28, isReversed |-> FALSE], [num |-> 34, isReversed |-> TRUE],
         [num |-> 40, isReversed |-> FALSE], [num |-> 46, isReversed |-> FALSE], [num |-> 52, isReversed |-> FALSE],
         [num |-> 58, isReversed |-> TRUE], [num |-> 64, isReversed |-> FALSE], [num |-> 70, isReversed |-> FALSE],
         [num |-> 76, isReversed |-> TRUE], [num |-> 82, isReversed |-> TRUE]
       >>,
       lowThreshold |-> 53, highThreshold |-> 71],
    purpose |->
      [name |-> "Purpose",
       questions |-> <<
         [num |-> 5, isReversed |-> FALSE], [num |-> 11, isReversed |-> TRUE], [num |-> 17, isReversed |-> TRUE],
         [num |-> 23, isReversed |-> FALSE], [num |-> 29, isReversed |-> TRUE], [num |-> 35, isReversed |-> TRUE],
         [num |-> 41, isReversed |-> TRUE], [num |-> 47, isReversed |-> FALSE], [num |-> 53, isReversed |-> FALSE],
         [num |-> 59, isReversed |-> FALSE], [num |-> 65, isReversed |-> TRUE], [num |-> 71, isReversed |-> FALSE],
         [num |-> 77, isReversed |-> FALSE], [num |-> 83, isReversed |-> TRUE]
       >>,
       lowThreshold |-> 54, highThreshold |-> 75],
    selfAcceptance |->
      [name |-> "Self-acceptance",
       questions |-> <<
         [num |-> 6, isReversed |-> FALSE], [num |-> 12, isReversed |-> FALSE], [num |-> 18, isReversed |-> TRUE],
         [num |-> 24, isReversed |-> TRUE], [num |-> 30, isReversed |-> FALSE], [num |-> 36, isReversed |-> FALSE],
         [num |-> 42, isReversed |-> TRUE], [num |-> 48, isReversed |-> FALSE], [num |-> 54, isReversed |-> TRUE],
         [num |-> 60, isReversed |-> TRUE], [num |-> 66, isReversed |-> TRUE], [num |-> 72, isReversed |-> FALSE],
         [num |-> 78, isReversed |-> FALSE], [num |-> 84, isReversed |-> TRUE]
       >>,
       lowThreshold |-> 49, highThreshold |-> 71]
  ]

\* Lines 718-719
ryffTotalLowThreshold == 315
ryffTotalHighThreshold == 413

\* Mutant of ryffCategorySum: a reversed slot adds the answer as it is.
RECURSIVE ryffCategorySumMutPlain(_, _, _)
ryffCategorySumMutPlain(questions, answers, j) ==
  IF j = 0 THEN 0
  ELSE ryffCategorySumMutPlain(questions, answers, j - 1) + answers[questions[j].num]

\* Lines 1470-1476: the score after the first j slots of a category.
RECURSIVE ryffCategorySum(_, _, _)
ryffCategorySum(questions, answers, j) ==
  IF j = 0 THEN 0
  ELSE ryffCategorySum(questions, answers, j - 1)
         + (IF questions[j].isReversed THEN 7 - answers[questions[j].num]
            ELSE answers[questions[j].num])

\* Mutant of calculateCategoryScore: a score at a threshold falls in the outer band.
calculateCategoryScoreMutOuter(categoryDef, answers) ==
  LET score == ryffCategorySum(categoryDef.questions, answers, Len(categoryDef.questions))
      lvl == IF score <= categoryDef.lowThreshold THEN [level |-> "Low", class |-> "low"]
             ELSE IF score >= categoryDef.highThreshold
             THEN [level |-> "High", class |-> "high"]
             ELSE [level |-> "Medium", class |-> "medium"]
  IN  [name |-> categoryDef.name, score |-> score, maxScore |-> 84,
       level |-> lvl.level, levelClass |-> lvl.class]

\* Lines 1464-1499
calculateCategoryScore(categoryDef, answers) ==
  LET score == ryffCategorySum(categoryDef.questions, answers, Len(categoryDef.questions))
      lvl == IF score < categoryDef.lowThreshold THEN [level |-> "Low", class |-> "low"]
             ELSE IF score > categoryDef.highThreshold
             THEN [level |-> "High", class |-> "high"]
             ELSE [level |-> "Medium", class |-> "medium"]
  IN  [name |-> categoryDef.name, score |-> score, maxScore |-> 84,
       level |-> lvl.level, levelClass |-> lvl.class]

\* Mutant of calculateRyffResults: the last category is left out of the total.
calculateRyffResultsMutFive(answers) ==
  LET relationships == calculateCategoryScore(ryffCategories.relationships, answers)
      autonomy == calculateCategoryScore(ryffCategories.autonomy, answers)
      environment == calculateCategoryScore(ryffCategories.environment, answers)
      growth == calculateCategoryScore(ryffCategories.growth, answers)
      purpose == calculateCategoryScore(ryffCategories.purpose, answers)
      selfAcceptance == calculateCategoryScore(ryffCategories.selfAcceptance, answers)
      totalScore == relationships.score + autonomy.score + environment.score
                      + growth.score + purpose.score
      lvl == IF totalScore < ryffTotalLowThreshold
             THEN [level |-> "Low", class |-> "low"]
             ELSE IF totalScore > ryffTotalHighThreshold
             THEN [level |-> "High", class |-> "high"]
             ELSE [level |-> "Medium", class |-> "medium"]
  IN  [relationships |-> relationships, autonomy |-> autonomy,
       environment |-> environment, growth |-> growth, purpose |-> purpose,
       selfAcceptance |-> selfAcceptance, totalScore |-> totalScore,
       totalLevel |-> lvl.level, totalLevelClass |-> lvl.class]

\* Lines 1463-1547
calculateRyffResults(answers) ==
  LET relationships == calculateCategoryScore(ryffCategories.relationships, answers)
      autonomy == calculateCategoryScore(ryffCategories.autonomy, answers)
      environment == calculateCategoryScore(ryffCategories.environment, answers)
      growth == calculateCategoryScore(ryffCategories.growth, answers)
      purpose == calculateCategoryScore(ryffCategories.purpose, answers)
      selfAcceptance == calculateCategoryScore(ryffCategories.selfAcceptance, answers)
      totalScore == relationships.score + autonomy.score + environment.score
                      + growth.score + purpose.score + selfAcceptance.score
      lvl == IF totalScore < ryffTotalLowThreshold
             THEN [level |-> "Low", class |-> "low"]
             ELSE IF totalScore > ryffTotalHighThreshold
             THEN [level |-> "High", class |-> "high"]
             ELSE [level |-> "Medium", class |-> "medium"]
  IN  [relationships |-> relationships, autonomy |-> autonomy,
       environment |-> environment, growth |-> growth, purpose |-> purpose,
       selfAcceptance |-> selfAcceptance, totalScore |-> totalScore,
       totalLevel |-> lvl.level, totalLevelClass |-> lvl.class]

\* Lines 1796-1808
getRyffCategoryLevel(score, lowThreshold, highThreshold) ==
  IF score < lowThreshold THEN [level |-> "Low", class |-> "low"]
  ELSE IF score > highThreshold THEN [level |-> "High", class |-> "high"]
  ELSE [level |-> "Medium", class |-> "medium"]

(***************************************************************************)
(* parseCSVLine and content.split('\n')                                    *)
(* A loop over the characters i = lo..hi is evaluated by halving the       *)
(* range: the state after lo..hi is the state after mid+1..hi started from *)
(* the state after lo..mid, which is the loop's left-to-right order. The   *)
(* state after the left half is inspected before the right half starts, so *)
(* that it is computed first.                                              *)
(***************************************************************************)
\* Mutant of csvStep: a comma ends the field inside quotes too.
csvStepMutAlways(st, char) ==
  IF char = QUOTE THEN [st EXCEPT !.inQuotes = ~@]
  ELSE IF char = COMMA
  THEN [st EXCEPT !.result = Append(@, Trim(st.current)), !.current = <<>>]
  ELSE [st EXCEPT !.current = Append(@, char)]

\* Lines 1561-1570: one iteration of the tokenizer's loop.
csvStep(st, char) ==
  IF char = QUOTE THEN [st EXCEPT !.inQuotes = ~@]
  ELSE IF char = COMMA /\ ~st.inQuotes
  THEN [st EXCEPT !.result = Append(@, Trim(st.current)), !.current = <<>>]
  ELSE [st EXCEPT !.current = Append(@, char)]

\* Lines 1560-1571: the iterations lo..hi, started in st.
RECURSIVE csvLoop(_, _, _, _)
csvLoop(st, line, lo, hi) ==
  IF lo > hi THEN st
  ELSE IF lo = hi THEN csvStep(st, line[lo])
  ELSE LET mid == (lo + hi) \div 2
           left == csvLoop(st, line, lo, mid)
       IN  IF left.inQuotes \in BOOLEAN THEN csvLoop(left, line, mid + 1, hi)
           ELSE left

\* Lines 1555-1575
parseCSVLine(line) ==
  LET st == csvLoop([result |-> <<>>, current |-> <<>>, inQuotes |-> FALSE],
                    line, 1, Len(line))
  IN  Append(st.result, Trim(st.current))

\* String.prototype.split('\n'): the pieces of content[lo..hi] between line feeds,
\* the last one still open.
splitStep(st, char) ==
  IF char = LF THEN [pieces |-> Append(st.pieces, st.current), current |-> <<>>]
  ELSE [st EXCEPT !.current = Append(@, char)]

RECURSIVE splitLoop(_, _, _, _)
splitLoop(st, content, lo, hi) ==
  IF lo > hi THEN st
  ELSE IF lo = hi THEN splitStep(st, content[lo])
  ELSE LET mid == (lo + hi) \div 2
           left == splitLoop(st, content, lo, mid)
       IN  IF Len(left.pieces) >= 0 THEN splitLoop(left, content, mid + 1, hi)
           ELSE left

Split(content) ==
  LET st == splitLoop([pieces |-> <<>>, current |-> <<>>], content, 1, Len(content))
  IN  Append(st.pieces, st.current)

IsNotBlank(line) == Trim(line) # <<>>

\* Line 794: content.split('\n').filter((line) => line.trim() !== '')
nonBlankLines(content) == SelectSeq(Split(content), IsNotBlank)

(***************************************************************************)
(* parseAndTransformCSV: one data row                                      *)
(* columns[k] of the code is columns[k + 1] here, and the answer to        *)
(* question q is element q of its answer sequence.                         *)
(***************************************************************************)
\* Line 807
minColumns == 3 + 30 + 67 + 36 + 13 + 84

\* Line 828: this.reversedQuestions.includes(questionNum)
isReversedQuestion(questionNum) ==
  \E j \in 1..Len(reversedQuestions) : reversedQuestions[j] = questionNum

\* The outcomes of the five decoding loops: for each question the value pushed and
\* the diagnostics logged.
\* Lines 824-836
sanCells(columns, email) ==
  [q \in 1..30 |-> sanAnswer(columns[3 + q], isReversedQuestion(q), q, email)]
\* Lines 845-851
shtepaCells(columns, email) ==
  [q \in 1..67 |-> shtepaAnswer(columns[33 + q], q, email)]
\* Lines 856-862
basicPhCells(columns, email) ==
  [q \in 1..36 |-> basicPhAnswer(columns[100 + q], q, email)]
\* Lines 867-877
personalResourceCells(columns, email) ==
  [q \in 1..13 |-> personalResourceAnswer(columns[136 + q], q, email)]
\* Lines 884-890
ryffCells(columns, email) ==
  [q \in 1..84 |-> ryffAnswer(columns[149 + q], q, email)]

\* Mutant of pushedValues: a cell that failed to decode repeats the value of the cell
\* before it.
pushedValuesMutRepeat(cells) ==
  [q \in 1..Len(cells) |->
     IF cells[q].log # <<>> /\ q > 1 THEN cells[q - 1].value ELSE cells[q].value]

\* Lines 835, 850, 861, 876, 889: every converted value is pushed.
pushedValues(cells) == [q \in 1..Len(cells) |-> cells[q].value]

\* The diagnostics of cells[lo..hi], in order.
RECURSIVE loggedDiagnostics(_, _, _)
loggedDiagnostics(cells, lo, hi) ==
  IF lo > hi THEN <<>>
  ELSE IF lo = hi THEN cells[lo].log
  ELSE LET mid == (lo + hi) \div 2
       IN  loggedDiagnostics(cells, lo, mid) \o loggedDiagnostics(cells, mid + 1, hi)

\* Lines 837-840, 852, 863, 878, 892-908: the record pushed for a row, from its
\* first three columns and its five answer arrays.
respondentRecord(timestamp, email, age, sanAnswers, shtepaAnswers, basicPhAnswers,
                 personalResourceAnswers, ryffAnswers) ==
  [timestamp |-> timestamp, email |-> email, age |-> age,
   sanAnswers |-> sanAnswers,
   san |-> [wellbeing |-> calculateAverage(sanAnswers, wellbeingQuestions),
            activity |-> calculateAverage(sanAnswers, activityQuestions),
            mood |-> calculateAverage(sanAnswers, moodQuestions)],
   shtepaAnswers |-> shtepaAnswers,
   shtepa |-> calculateShtepaResults(shtepaAnswers),
   basicPhAnswers |-> basicPhAnswers,
   basicPh |-> calculateBasicPhResults(basicPhAnswers),
   personalResourceAnswers |-> personalResourceAnswers,
   personalResource |-> calculatePersonalResourceResults(personalResourceAnswers),
   ryffAnswers |-> ryffAnswers,
   ryff |-> calculateRyffResults(ryffAnswers)]

\* The outcome of decoding a row's 230 answer cells: the record pushed and the
\* diagnostics logged, in column order.
rowOutcome(timestamp, email, age, san, shtepa, basicPh, personalResource, ryff, all) ==
  [respondent |-> respondentRecord(timestamp, email, age, pushedValues(san),
                                   pushedValues(shtepa), pushedValues(basicPh),
                                   pushedValues(personalResource), pushedValues(ryff)),
   log |-> loggedDiagnostics(all, 1, Len(all))]

\* Lines 819-908 for the cell outcomes of one row.
transformCells(timestamp, email, age, san, shtepa, basicPh, personalResource, ryff) ==
  rowOutcome(timestamp, email, age, san, shtepa, basicPh, personalResource, ryff,
             san \o shtepa \o basicPh \o personalResource \o ryff)

\* Lines 819-908
transformRow(columns) ==
  transformCells(columns[1], columns[2], columns[3],
                 sanCells(columns, columns[2]), shtepaCells(columns, columns[2]),
                 basicPhCells(columns, columns[2]),
                 personalResourceCells(columns, columns[2]),
                 ryffCells(columns, columns[2]))

\* Mutant of hasEnoughColumns: a row of exactly minColumns fields is turned away.
hasEnoughColumnsMutStrict(columns) == ~(Len(columns) <= minColumns)

\* Line 812: the row is processed unless columns.length < minColumns.
hasEnoughColumns(columns) == ~(Len(columns) < minColumns)

\* Lines 813-815: the warning for a row of columnCount fields; the count is
\* carried in the field questionNum.
rowWarning(columnCount) ==
  Diagnostic("CSV", "Row has insufficient columns", columnCount, <<>>, <<>>)

\* Mutant of pushRow: a row with a cell that failed to decode is logged but not recorded.
pushRowMutDrop(before, row) ==
  IF row.log # <<>> THEN [before EXCEPT !.log = @ \o row.log]
  ELSE [pushed |-> Append(before.pushed, row.respondent), log |-> before.log \o row.log]

\* Lines 894-908 seen from the loop: the record is appended to the result set and
\* the row's diagnostics follow those logged so far.
pushRow(before, row) ==
  [pushed |-> Append(before.pushed, row.respondent), log |-> before.log \o row.log]

\* Lines 810-908: one iteration of the row loop.
rowStep(before, columns) ==
  IF ~hasEnoughColumns(columns)
  THEN [before EXCEPT !.log = Append(@, rowWarning(Len(columns)))]
  ELSE pushRow(before, transformRow(columns))

\* Lines 809-909: the records pushed and the diagnostics logged by the first k rows.
RECURSIVE rowLoop(_, _)
rowLoop(dataRows, k) ==
  IF k = 0 THEN [pushed |-> <<>>, log |-> <<>>]
  ELSE rowStep(rowLoop(dataRows, k - 1), parseCSVLine(dataRows[k]))

\* Lines 796-803 and 809-909 for the non-blank lines of a content: whether the
\* header check fails, and what the row loop pushed and logged.
transformLines(lines) ==
  IF Len(lines) < 2 THEN [tooShort |-> TRUE, rows |-> [pushed |-> <<>>, log |-> <<>>]]
  ELSE [tooShort |-> FALSE, rows |-> rowLoop(Tail(lines), Len(lines) - 1)]

\* Lines 794-803 and 809-909 for one content.
transformContent(content) == transformLines(nonBlankLines(content))

(***************************************************************************)
(* The files offered to handleFile                                         *)
(***************************************************************************)
\* Cell texts of the sample rows. SAN: the seven options of a question.
sanCycle ==
  <<
    <<51, 32, 40, 1089, 1072, 1084, 1086, 1087, 1086, 1095, 1091, 1090, 1090,
      1103, 32, 1076, 1086, 1073, 1088, 1077, 41>>,  \* "3 (самопочуття добре)"
    <<50, 12644>>,  \* "2<U+3164>"
    <<49, 12644>>,  \* "1<U+3164>"
    <<48>>,  \* "0"
    <<49>>,  \* "1"
    <<50>>,  \* "2"
    <<51, 32, 40, 1089, 1072, 1084, 1086, 1087, 1086, 1095, 1091, 1090, 1090,
      1103, 32, 1087, 1086, 1075, 1072, 1085, 1077, 41>>  \* "3 (самопочуття погане)"
  >>
\* Shtepa: yes and no.
shtepaCycle ==
  <<
    <<1058, 1072, 1082>>,  \* "Так"
    <<1053, 1110>>  \* "Ні"
  >>
\* Basic Ph: numbers and keywords.
basicPhCycle ==
  <<
    <<48>>,  \* "0"
    <<49>>,  \* "1"
    <<1030, 1085, 1086, 1076, 1110>>,  \* "Іноді"
    <<51>>,  \* "3"
    <<1063, 1072, 1089, 1090, 1086>>,  \* "Часто"
    <<1052, 1072, 1081, 1078, 1077, 32, 1079, 1072, 1074, 1078, 1076, 1080>>,  \* "Майже завжди"
    <<54>>  \* "6"
  >>
\* Personal Resources: the five options.
personalResourceCycle ==
  <<
    <<1055, 1086, 1074, 1085, 1110, 1089, 1090, 1102, 32, 1085, 1077, 32, 1087,
      1086, 1075, 1086, 1076, 1078, 1091, 1102, 1089, 1100>>,  \* "Повністю не погоджуюсь"
    <<1063, 1072, 1089, 1090, 1082, 1086, 1074, 1086, 32, 1085, 1077, 32, 1087,
      1086, 1075, 1086, 1076, 1078, 1091, 1089, 1100>>,  \* "Частково не погоджусь"
    <<1042, 1072, 1078, 1082, 1086, 32, 1074, 1080, 1079, 1085, 1072, 1095,
      1080, 1090, 1080, 1089, 1103>>,  \* "Важко визначитися"
    <<1063, 1072, 1089, 1090, 1082, 1086, 1074, 1086, 32, 1087, 1086, 1075,
      1086, 1076, 1078, 1091, 1102, 1089, 1100>>,  \* "Частково погоджуюсь"
    <<1055, 1086, 1074, 1085, 1110, 1089, 1090, 1102, 32, 1087, 1086, 1075,
      1086, 1076, 1078, 1091, 1102, 1089, 1100>>  \* "Повністю погоджуюсь"
  >>
\* Ryff: phrases and numbers.
ryffCycle ==
  <<
    <<1055, 1086, 1074, 1085, 1110, 1089, 1090, 1102, 32, 1085, 1077, 32, 1079,
      1075, 1086, 1076, 1077, 1085>>,  \* "Повністю не згоден"
    <<50>>,  \* "2"
    <<1044, 1077, 32, 1074, 32, 1095, 1086, 1084, 1091, 32, 1085, 1077, 32,
      1079, 1075, 1086, 1076, 1077, 1085>>,  \* "Де в чому не згоден"
    <<1044, 1077, 32, 1074, 32, 1095, 1086, 1084, 1091, 32, 1079, 1075, 1086,
      1076, 1077, 1085>>,  \* "Де в чому згоден"
    <<53>>,  \* "5"
    <<1055, 1086, 1074, 1085, 1110, 1089, 1090, 1102, 32, 1079, 1075, 1086,
      1076, 1077, 1085>>  \* "Повністю згоден"
  >>
\* The respondent identifiers of the sample rows.
sampleEmails ==
  <<
    <<97, 64, 98>>,  \* "a@b"
    <<99, 64, 100>>,  \* "c@d"
    <<101, 64, 102>>,  \* "e@f"
    <<103, 64, 104>>,  \* "g@h"
    <<105, 64, 106>>  \* "i@j"
  >>
\* Texts no decoder recognizes in the column they are put in.
badCells ==
  <<
    <<51>>,  \* "3"
    <<63, 63>>,  \* "??"
    <<109, 97, 121, 98, 101>>,  \* "maybe"
    <<>>,  \* ""
    <<57>>,  \* "9"
    <<48>>,  \* "0"
    <<55>>  \* "7"
  >>

\* "t, 1" in quotes: a timestamp with a comma inside a quoted field.
quotedTimestamp == <<34, 116, 44, 32, 49, 34>>
\* "21"
sampleAge == <<50, 49>>
\* The header line: "h"
headerLine == <<104>>

\* A well-formed row of exactly minColumns cells for respondent e: every answer
\* column holds one of the texts its questionnaire offers.
goodCells(e) ==
  <<quotedTimestamp, sampleEmails[e], sampleAge>>
    \o [q \in 1..30 |-> sanCycle[((q + e) % 7) + 1]]
    \o [q \in 1..67 |-> shtepaCycle[((q + e) % 2) + 1]]
    \o [q \in 1..36 |-> basicPhCycle[((q + e) % 7) + 1]]
    \o [q \in 1..13 |-> personalResourceCycle[((q + e) % 5) + 1]]
    \o [q \in 1..84 |-> ryffCycle[((q + e) % 6) + 1]]

\* The same row with cells the decoders do not recognize: SAN questions 2 and 5,
\* Shtepa questions 1 and 2, Basic Ph question 3, Personal Resources question 4 and
\* Ryff question 6.
flawedCells(e) ==
  [goodCells(e) EXCEPT ![3 + 2] = badCells[1], ![3 + 5] = badCells[2],
                       ![33 + 1] = badCells[3], ![33 + 2] = badCells[4],
                       ![100 + 3] = badCells[5], ![136 + 4] = badCells[6],
                       ![149 + 6] = badCells[7]]

\* The line of a row: its cells joined by commas.
RECURSIVE joinCells(_, _, _)
joinCells(cells, lo, hi) ==
  IF lo > hi THEN <<>>
  ELSE IF lo = hi THEN cells[lo]
  ELSE LET mid == (lo + hi) \div 2
       IN  joinCells(cells, lo, mid) \o <<COMMA>> \o joinCells(cells, mid + 1, hi)

rowLine(cells) == joinCells(cells, 1, Len(cells))

\* The content of a file: its lines, each ended by a line feed.
RECURSIVE fileContent(_)
fileContent(lines) ==
  IF lines = <<>> THEN <<>> ELSE Head(lines) \o <<LF>> \o fileContent(Tail(lines))

\* How many cells the short row of the sample files has.
ShortRowCells == 10

goodLine(e) == rowLine(goodCells(e))
flawedLine(e) == rowLine(flawedCells(e))
\* one cell more than needed, and a carriage return before the line feed
longLine(e) == rowLine(goodCells(e) \o <<sampleAge>>) \o <<13>>
\* one cell fewer than needed
almostLine(e) == rowLine(SubSeq(goodCells(e), 1, minColumns - 1))
shortLine(e) == rowLine(SubSeq(goodCells(e), 1, ShortRowCells))
\* a line of blanks
blankLine == <<32, 13>>

\* The files: name and content. 1 "ok.csv": two well-formed rows, one of them with
\* unrecognized cells. 2 "mixed.csv": three well-formed rows among a short row, a
\* row one cell short and a blank line. 3 "header.csv": the header only.
\* 4 "short.csv": no row with enough cells. 5 "empty.csv": nothing. 6 "notes.txt":
\* not a CSV file.
Files ==
  <<
    [name |-> <<111, 107, 46, 99, 115, 118>>,
     content |-> fileContent(<<headerLine, goodLine(1), flawedLine(2)>>)],
    [name |-> <<109, 105, 120, 101, 100, 46, 99, 115, 118>>,
     content |-> fileContent(<<headerLine, goodLine(3), shortLine(1), blankLine,
                               flawedLine(4), almostLine(2), longLine(5)>>)],
    [name |-> <<104, 101, 97, 100, 101, 114, 46, 99, 115, 118>>,
     content |-> fileContent(<<headerLine>>)],
    [name |-> <<115, 104, 111, 114, 116, 46, 99, 115, 118>>,
     content |-> fileContent(<<headerLine, shortLine(1), almostLine(2)>>)],
    [name |-> <<101, 109, 112, 116, 121, 46, 99, 115, 118>>,
     content |-> <<>>],
    [name |-> <<110, 111, 116, 101, 115, 46, 116, 120, 116>>,
     content |-> fileContent(<<headerLine, goodLine(1)>>)]
  >>

FileIds == 1..Len(Files)

(***************************************************************************)
(* AppComponent: handleFile, the FileReader callbacks, clearData           *)
(***************************************************************************)
\* String.prototype.endsWith
EndsWith(s, suffix) ==
  Len(s) >= Len(suffix) /\ SubSeq(s, Len(s) - Len(suffix) + 1, Len(s)) = suffix

\* ".csv"
csvSuffix == <<46, 99, 115, 118>>

\* Lines 794-909 for each file: the outcome depends on the content alone.
fileOutcome == [f \in FileIds |-> transformContent(Files[f].content)]

\* How many reads may be in flight at once.
MaxPending == 2

RECURSIVE pendingCount(_, _)
pendingCount(pending, f) ==
  IF f = 0 THEN 0 ELSE pendingCount(pending, f - 1) + pending[f]

\* Lines 751-772. The read started on line 771 completes later, with onload or
\* onerror.
handleFile(f) ==
  IF ~EndsWith(Files[f].name, csvSuffix)
  THEN /\ errorMessage' = "Please upload a CSV file"
       /\ lastEvent' = [op |-> "rejected", file |-> f]
       /\ UNCHANGED <<respondents, fileName, isLoading, pendingReads, console>>
  ELSE /\ pendingCount(pendingReads, Len(Files)) < MaxPending
       /\ errorMessage' = ""
       /\ isLoading' = TRUE
       /\ fileName' = Files[f].name
       /\ pendingReads' = [pendingReads EXCEPT ![f] = @ + 1]
       /\ lastEvent' = [op |-> "handleFile", file |-> f]
       /\ UNCHANGED <<respondents, console>>

\* Line 804: this.respondents = []
resetRespondents(previous) == <<>>

\* Lines 911-913: the state after the row loop.
afterRows(loaded, log) ==
  [respondents |-> loaded,
   errorMessage |-> IF Len(loaded) = 0 THEN "No valid data rows found in CSV"
                    ELSE errorMessage,
   log |-> log]

\* Lines 793-914: the result set, the error message and the console after
\* parseAndTransformCSV ran on a content with this outcome.
parseAndTransformCSV(outcome) ==
  IF outcome.tooShort
  THEN [respondents |-> respondents,
        errorMessage |-> "CSV file must have a header and at least one data row",
        log |-> <<>>]
  ELSE afterRows(resetRespondents(respondents) \o outcome.rows.pushed,
                 outcome.rows.log)

\* Line 764: the fields parseAndTransformCSV leaves behind.
assignLoaded(after) ==
  /\ respondents' = after.respondents
  /\ errorMessage' = after.errorMessage
  /\ console' = after.log

\* Lines 762-766: reader.onload
onload(f) ==
  /\ pendingReads[f] > 0
  /\ assignLoaded(parseAndTransformCSV(fileOutcome[f]))
  /\ isLoading' = FALSE
  /\ pendingReads' = [pendingReads EXCEPT ![f] = @ - 1]
  /\ lastEvent' = [op |-> "onload", file |-> f]
  /\ UNCHANGED fileName

\* Mutant of onerror: the failed read leaves isLoading as it was.
onerrorMutStuck(f) ==
  /\ pendingReads[f] > 0
  /\ errorMessage' = "Error reading file"
  /\ pendingReads' = [pendingReads EXCEPT ![f] = @ - 1]
  /\ lastEvent' = [op |-> "onerror", file |-> f]
  /\ UNCHANGED <<respondents, fileName, isLoading, console>>

\* Lines 767-770: reader.onerror
onerror(f) ==
  /\ pendingReads[f] > 0
  /\ errorMessage' = "Error reading file"
  /\ isLoading' = FALSE
  /\ pendingReads' = [pendingReads EXCEPT ![f] = @ - 1]
  /\ lastEvent' = [op |-> "onerror", file |-> f]
  /\ UNCHANGED <<respondents, fileName, console>>

\* Lines 1577-1581
clearData ==
  /\ respondents' = <<>>
  /\ fileName' = <<>>
  /\ errorMessage' = ""
  /\ lastEvent' = [op |-> "clearData", file |-> 0]
  /\ UNCHANGED <<isLoading, pendingReads, console>>

(***************************************************************************)
(* AppComponent: the Ryff detail modal                                     *)
(***************************************************************************)
\* Mutant of openRyffDetail: the answer of a reversed question is shown as it was given.
openRyffDetailMutRaw(i, categoryKey) ==
  /\ i \in 1..Len(respondents)
  /\ categoryKey \in DOMAIN ryffCategories
  /\ ryffDetailRespondent' = <<respondents[i]>>
  /\ ryffDetailCategory' = ryffCategories[categoryKey].name
  /\ ryffDetailQuestions' =
       [j \in 1..Len(ryffCategories[categoryKey].questions) |->
          [num |-> ryffCategories[categoryKey].questions[j].num,
           rawAnswer |->
             respondents[i].ryffAnswers[ryffCategories[categoryKey].questions[j].num],
           finalAnswer |->
             respondents[i].ryffAnswers[ryffCategories[categoryKey].questions[j].num],
           isReversed |-> ryffCategories[categoryKey].questions[j].isReversed]]
  /\ showRyffDetailModal' = TRUE
  /\ lastEvent' = [op |-> "openRyffDetail", file |-> 0, respondent |-> i,
                   categoryKey |-> categoryKey]
  /\ UNCHANGED <<respondents, fileName, isLoading, errorMessage, pendingReads, console>>

\* Lines 1817-1844, for the record at index i of the result set. Line 1821 reads
\* ryffCategories[categoryKey] through the prototype chain: for "toString" it yields
\* Object.prototype.toString, which is truthy, has the name "toString" and no
\* questions, so that line 1830 throws after lines 1818 and 1827 have assigned.
openRyffDetail(i, categoryKey) ==
  /\ i \in 1..Len(respondents)
  /\ ryffDetailRespondent' = <<respondents[i]>>
  /\ IF categoryKey \in DOMAIN ryffCategories
     THEN /\ ryffDetailCategory' = ryffCategories[categoryKey].name
          /\ ryffDetailQuestions' =
               [j \in 1..Len(ryffCategories[categoryKey].questions) |->
                  LET q == ryffCategories[categoryKey].questions[j]
                      rawAnswer == respondents[i].ryffAnswers[q.num]
                  IN  [num |-> q.num,
                       rawAnswer |-> rawAnswer,
                       finalAnswer |-> IF q.isReversed THEN 7 - rawAnswer ELSE rawAnswer,
                       isReversed |-> q.isReversed]]
          /\ showRyffDetailModal' = TRUE
          /\ UNCHANGED console
     ELSE IF categoryKey = "toString"
     THEN /\ ryffDetailCategory' = "toString"
          /\ UNCHANGED <<ryffDetailQuestions, showRyffDetailModal, console>>
     ELSE /\ console' = Append(console, [test |-> "Ryff", kind |-> "Unknown Ryff category",
                                         questionNum |-> 0, email |-> <<>>,
                                         rawValue |-> <<>>, categoryKey |-> categoryKey])
          /\ UNCHANGED <<ryffDetailCategory, ryffDetailQuestions, showRyffDetailModal>>
  /\ lastEvent' = [op |-> "openRyffDetail", file |-> 0, respondent |-> i,
                   categoryKey |-> categoryKey]
  /\ UNCHANGED <<respondents, fileName, isLoading, errorMessage, pendingReads>>

\* Lines 1849-1854
closeRyffDetail ==
  /\ showRyffDetailModal' = FALSE
  /\ ryffDetailRespondent' = <<>>
  /\ ryffDetailCategory' = ""
  /\ ryffDetailQuestions' = <<>>
  /\ lastEvent' = [op |-> "closeRyffDetail", file |-> 0]
  /\ UNCHANGED <<respondents, fileName, isLoading, errorMessage, pendingReads, console>>

\* Lines 1859-1861
ryffDetailTotal ==
  LET RECURSIVE reduce(_)
      reduce(j) == IF j = 0 THEN 0 ELSE reduce(j - 1) + ryffDetailQuestions[j].finalAnswer
  IN  reduce(Len(ryffDetailQuestions))

(***************************************************************************)
(* Initial values                                                          *)
(***************************************************************************)
AppInit ==
  /\ respondents = <<>>
  /\ fileName = <<>>
  /\ isLoading = FALSE
  /\ errorMessage = ""
  /\ pendingReads = [f \in FileIds |-> 0]
  /\ console = <<>>
  /\ lastEvent = [op |-> "init", file |-> 0]
  /\ showRyffDetailModal = FALSE
  /\ ryffDetailRespondent = <<>>
  /\ ryffDetailCategory = ""
  /\ ryffDetailQuestions = <<>>

SanIdle == [rawValue |-> <<>>, isReversed |-> FALSE, questionNum |-> 0,
            pc |-> "idle", result |-> Decoded(0)]

ShtepaIdle ==
  [answers |-> <<>>, pc |-> "idle",
   result |-> [categories |-> <<>>, totalScore |-> 0, totalLevel |-> "",
               totalLevelClass |-> ""]]

PrIdle ==
  [answers |-> <<>>, pc |-> "idle", raises |-> 0,
   result |-> calculatePersonalResourceResults([n \in 1..PrQuestionCount |-> 0])]

DecodeIdle ==
  [test |-> "", rawValue |-> <<>>, questionNum |-> 0, pc |-> "idle",
   result |-> Decoded(0)]

ScoreIdle ==
  [test |-> "", answers |-> <<>>, pc |-> "idle", result |-> <<>>, levels |-> <<>>]

(***************************************************************************)
(* Specification Spec: the component under file drops, read completions    *)
(* and clearData.                                                          *)
(***************************************************************************)
Init ==
  /\ AppInit
  /\ decodeCell = DecodeIdle
  /\ scoreRun = ScoreIdle
  /\ sanCell = SanIdle
  /\ shtepaRun = ShtepaIdle
  /\ prRun = PrIdle

Next ==
  \/ \E f \in FileIds :
       /\ handleFile(f)
       /\ UNCHANGED <<showRyffDetailModal, ryffDetailRespondent, ryffDetailCategory,
                      ryffDetailQuestions, sanCell, shtepaRun, prRun, decodeCell, scoreRun>>
  \/ \E f \in FileIds :
       /\ onload(f)
       /\ UNCHANGED <<showRyffDetailModal, ryffDetailRespondent, ryffDetailCategory,
                      ryffDetailQuestions, sanCell, shtepaRun, prRun, decodeCell, scoreRun>>
  \/ \E f \in FileIds :
       /\ onerror(f)
       /\ UNCHANGED <<showRyffDetailModal, ryffDetailRespondent, ryffDetailCategory,
                      ryffDetailQuestions, sanCell, shtepaRun, prRun, decodeCell, scoreRun>>
  \/ /\ clearData
     /\ UNCHANGED <<showRyffDetailModal, ryffDetailRespondent, ryffDetailCategory,
                    ryffDetailQuestions, sanCell, shtepaRun, prRun, decodeCell, scoreRun>>

Spec == Init /\ [][Next]_vars

\* Spec with every started read completing: while a read is pending, reader.onload or
\* reader.onerror is eventually called (line 771 hands the file to the FileReader, which
\* ends each read with one of the two).
SpecLive ==
  /\ Spec
  /\ WF_vars(\E f \in FileIds :
               /\ onload(f) \/ onerror(f)
               /\ UNCHANGED <<showRyffDetailModal, ryffDetailRespondent, ryffDetailCategory,
                              ryffDetailQuestions, sanCell, shtepaRun, prRun, decodeCell,
                              scoreRun>>)

(***************************************************************************)
(* Specification SpecSan: convertSanAnswer applied to one cell.            *)
(***************************************************************************)
\* Cell texts decoded in SpecSan besides the keyword texts.
sanSampleTexts ==
  <<
    <<48>>,  \* "0"
    <<49>>,  \* "1"
    <<50>>,  \* "2"
    <<51>>,  \* "3"
    <<49, 12644>>,  \* "1<U+3164>"
    <<50, 12644>>,  \* "2<U+3164>"
    <<48, 12644>>,  \* "0<U+3164>"
    <<51, 12644>>,  \* "3<U+3164>"
    <<32, 49, 32>>,  \* " 1 "
    <<50, 32, 12644>>,  \* "2 <U+3164>"
    <<>>,  \* ""
    <<52>>,  \* "4"
    <<49, 48>>,  \* "10"
    <<49, 50, 12644>>,  \* "12<U+3164>"
    <<1090, 1072, 1082>>,  \* "так"
    <<51, 32, 40, 1085, 1077, 1074, 1110, 1076, 1086, 1084, 1086, 41>>,  \* "3 (невідомо)"
    <<51, 40, 41>>,  \* "3()"
    <<51, 32, 40>>,  \* "3 ("
    <<45, 49>>,  \* "-1"
    <<50, 46>>,  \* "2."
    <<51, 32, 1076, 1086, 1073, 1088, 1077>>,  \* "3 добре"
    <<51, 32, 40, 1057, 1072, 1084, 1086, 1087, 1086, 1095, 1091, 1090, 1090, 1103, 32, 1044, 1054, 1041, 1056, 1045, 41>>,  \* "3 (Самопочуття ДОБРЕ)"
    <<51, 32, 40, 1089, 1072, 1084, 1086, 1087, 1086, 1095, 1091, 1090, 1090, 1103, 32, 1087, 1086, 1075, 1072, 1085, 1077, 41>>,  \* "3 (самопочуття погане)"
    <<32, 32, 51, 32, 40, 1057, 1091, 1084, 1085, 1080, 1081, 41, 32>>,  \* "  3 (Сумний) "
    <<51, 40, 1074, 1077, 1089, 1077, 1083, 1080, 1081, 41>>,  \* "3(веселий)"
    <<51, 40, 1093, 1074, 1086, 1088, 1080, 1081, 41>>,  \* "3(хворий)"
    <<12644>>,  \* "<U+3164>"
    <<32, 48>>  \* " 0"
  >>

\* "3 (k)" and "3(k)" for a keyword k
ExtremeText(k) == <<51, 32, 40>> \o k \o <<41>>
ExtremeTextNoSpace(k) == <<51, 40>> \o k \o <<41>>

SanTexts ==
  {sanSampleTexts[i] : i \in 1..Len(sanSampleTexts)}
    \cup {ExtremeText(positiveKeywords[i]) : i \in 1..Len(positiveKeywords)}
    \cup {ExtremeText(negativeKeywords[i]) : i \in 1..Len(negativeKeywords)}
    \cup {ExtremeTextNoSpace(negativeKeywords[i]) : i \in 1..Len(negativeKeywords)}

\* Question numbers a cell is decoded for in SpecSan (one plain, one reversed).
SanQuestions == {1, 3}
\* The respondent identifier passed along for diagnostics: "a@b"
SampleEmail == <<97, 64, 98>>

InitSan ==
  /\ AppInit
  /\ decodeCell = DecodeIdle
  /\ scoreRun = ScoreIdle
  /\ shtepaRun = ShtepaIdle
  /\ prRun = PrIdle
  /\ sanCell \in {[rawValue |-> t, isReversed |-> r, questionNum |-> q,
                   pc |-> "input", result |-> Decoded(0)] :
                    t \in SanTexts, r \in BOOLEAN, q \in SanQuestions}

ConvertSan ==
  /\ sanCell.pc = "input"
  /\ sanCell' = [sanCell EXCEPT
                   !.pc = "done",
                   !.result = sanAnswer(sanCell.rawValue, sanCell.isReversed,
                                        sanCell.questionNum, SampleEmail)]
  /\ UNCHANGED <<appVars, shtepaRun, prRun, decodeCell, scoreRun>>

NextSan == ConvertSan

SpecSan == InitSan /\ [][NextSan]_vars

(***************************************************************************)
(* Specification SpecShtepa: calculateShtepaResults on 67 decoded answers. *)
(***************************************************************************)
\* The answer every slot of question n expects (no question is expected both ways).
shtepaKey ==
  [n \in 1..ShtepaQuestionCount |->
     \E c \in 1..Len(shtepaCategories) :
       \E j \in 1..Len(shtepaCategories[c].questions) :
         /\ shtepaCategories[c].questions[j].num = n
         /\ shtepaCategories[c].questions[j].expected]

\* The questions of category c
shtepaNums(c) ==
  {shtepaCategories[c].questions[j].num : j \in 1..Len(shtepaCategories[c].questions)}

\* Answer patterns: the key on the first t questions and its opposite after them,
\* the key on one category and its opposite elsewhere, all "yes", all "no".
ShtepaBases ==
  {[n \in 1..ShtepaQuestionCount |-> IF n <= t THEN shtepaKey[n] ELSE ~shtepaKey[n]] :
     t \in 0..ShtepaQuestionCount}
    \cup {[n \in 1..ShtepaQuestionCount |->
             IF n \in shtepaNums(c) THEN shtepaKey[n] ELSE ~shtepaKey[n]] :
            c \in 1..Len(shtepaCategories)}
    \cup {[n \in 1..ShtepaQuestionCount |-> b] : b \in BOOLEAN}

\* How many answers of a pattern may be changed to the other answer, and the
\* questions whose answer may be changed: those of the first and the last category.
MaxFlips == 2
ShtepaFlipQuestions == shtepaNums(1) \cup shtepaNums(Len(shtepaCategories))

RECURSIVE FlipSets(_)
FlipSets(k) ==
  IF k = 0 THEN {{}}
  ELSE LET less == FlipSets(k - 1)
       IN  less \cup {S \cup {q} : S \in less, q \in ShtepaFlipQuestions}

ShtepaInputs ==
  {[n \in 1..ShtepaQuestionCount |-> IF n \in F THEN ~base[n] ELSE base[n]] :
     base \in ShtepaBases, F \in FlipSets(MaxFlips)}

InitShtepa ==
  /\ AppInit
  /\ decodeCell = DecodeIdle
  /\ scoreRun = ScoreIdle
  /\ sanCell = SanIdle
  /\ prRun = PrIdle
  /\ shtepaRun \in {[ShtepaIdle EXCEPT !.answers = a, !.pc = "input"] :
                      a \in ShtepaInputs}

CalculateShtepa ==
  /\ shtepaRun.pc = "input"
  /\ shtepaRun' = [shtepaRun EXCEPT !.pc = "done",
                                    !.result = calculateShtepaResults(shtepaRun.answers)]
  /\ UNCHANGED <<appVars, sanCell, prRun, decodeCell, scoreRun>>

NextShtepa == CalculateShtepa

SpecShtepa == InitShtepa /\ [][NextShtepa]_vars

(***************************************************************************)
(* Specification SpecPr: calculatePersonalResourceResults on 13 decoded    *)
(* answers, recomputed after one answer is raised by one.                  *)
(***************************************************************************)
\* Answer patterns: the same answer to every question; scenario B (Sufficiency 25,
\* Coping 10, Exhaustion 5); one just under the upper bounds of Sufficiency and
\* Coping (20 and 17); one category at the top with the others at the bottom.
PrBases ==
  {[n \in 1..PrQuestionCount |-> v] : v \in 1..4}
    \cup {<<5, 5, 3, 4, 4, 3, 2, 2, 4, 3, 2, 2, 1>>}
    \cup {<<4, 4, 5, 3, 3, 4, 3, 4, 3, 3, 3, 4, 3>>}
    \cup {[n \in 1..PrQuestionCount |->
             IF \E j \in 1..Len(qs) : qs[j] = n THEN 4 ELSE 1] :
            qs \in {personalResourceSufficiencyQuestions,
                    personalResourceCopingQuestions,
                    personalResourceExhaustionQuestions}}

\* How many times an answer may be raised after the first calculation.
MaxRaises == 2

InitPr ==
  /\ AppInit
  /\ decodeCell = DecodeIdle
  /\ scoreRun = ScoreIdle
  /\ sanCell = SanIdle
  /\ shtepaRun = ShtepaIdle
  /\ prRun \in {[PrIdle EXCEPT !.answers = a, !.pc = "input"] : a \in PrBases}

CalculatePr ==
  /\ prRun.pc = "input"
  /\ prRun' = [prRun EXCEPT !.pc = "done",
                            !.result = calculatePersonalResourceResults(prRun.answers)]
  /\ UNCHANGED <<appVars, sanCell, shtepaRun, decodeCell, scoreRun>>

\* The same respondent with the answer to question q one step higher.
RaisePrAnswer(q) ==
  /\ prRun.pc = "done"
  /\ prRun.raises < MaxRaises
  /\ prRun.answers[q] < 5
  /\ LET raised == [prRun.answers EXCEPT ![q] = @ + 1]
     IN  prRun' = [prRun EXCEPT !.answers = raised,
                                !.raises = @ + 1,
                                !.result = calculatePersonalResourceResults(raised)]
  /\ UNCHANGED <<appVars, sanCell, shtepaRun, decodeCell, scoreRun>>

NextPr == CalculatePr \/ \E q \in 1..PrQuestionCount : RaisePrAnswer(q)

SpecPr == InitPr /\ [][NextPr]_vars

(***************************************************************************)
(* Specification SpecScore: calculateRyffResults, calculateBasicPhResults  *)
(* and the three SAN averages on decoded answers.                          *)
(***************************************************************************)
\* The 84 Ryff answers of a respondent whose slots, after the reversal, add up to
\* target[k] in category k: the first slots of a category count one more than the
\* others.
ryffSheet(target) ==
  [n \in 1..84 |->
     LET k == CHOOSE c \in DOMAIN ryffCategories :
                \E j \in 1..14 : ryffCategories[c].questions[j].num = n
         j == CHOOSE i \in 1..14 : ryffCategories[k].questions[i].num = n
         counted == (target[k] \div 14) + (IF j <= target[k] % 14 THEN 1 ELSE 0)
     IN  IF ryffCategories[k].questions[j].isReversed THEN 7 - counted ELSE counted]

\* The answer sheets scored in SpecScore.
\* Ryff (answers 1..6): the same answer to every question; one category just below,
\* at and just above each of its thresholds with the others in between; all
\* categories just below, at and just above their thresholds; totals of 314, 315,
\* 413 and 414.
\* Basic Ph (answers 0..6): the same answer to every question; one category at 6 and
\* the others at 0; answers that change from question to question.
\* SAN (answers 1..7): the same answer to every question; answers that change from
\* question to question.
ScoreInputs ==
  LET keys == DOMAIN ryffCategories
      low(k) == ryffCategories[k].lowThreshold
      high(k) == ryffCategories[k].highThreshold
      middle(k) == (low(k) + high(k)) \div 2
      targets ==
        {[k \in keys |-> IF k = c THEN low(c) + d ELSE middle(k)] :
           c \in keys, d \in {-1, 0}}
        \cup {[k \in keys |-> IF k = c THEN high(c) + d ELSE middle(k)] :
                c \in keys, d \in {0, 1}}
        \cup {[k \in keys |-> low(k) + d] : d \in {-1, 0}}
        \cup {[k \in keys |-> high(k) + d] : d \in {0, 1}}
        \cup {[k \in keys |-> low(k) + (IF k = "relationships" THEN d ELSE 0)] :
                d \in {6, 7}}
        \cup {[k \in keys |-> high(k) - (IF k = "relationships" THEN d ELSE 0)] :
                d \in {10, 11}}
  IN  [Ryff |-> {[n \in 1..84 |-> v] : v \in 1..6}
                  \cup {ryffSheet(t) : t \in targets},
       BasicPh |-> {[n \in 1..36 |-> v] : v \in 0..6}
                     \cup {[n \in 1..36 |->
                              IF \E j \in 1..6 : basicPhCategories[c].questions[j] = n
                              THEN 6 ELSE 0] : c \in 1..Len(basicPhCategories)}
                     \cup {[n \in 1..36 |-> (n * m) % 7] : m \in 1..6},
       SAN |-> {[n \in 1..30 |-> v] : v \in 1..7}
                 \cup {[n \in 1..30 |-> ((n * m) % 7) + 1] : m \in 1..6}
                 \cup {[n \in 1..30 |-> ((n \div m) % 7) + 1] : m \in 2..6}]

InitScore ==
  /\ AppInit
  /\ sanCell = SanIdle
  /\ shtepaRun = ShtepaIdle
  /\ prRun = PrIdle
  /\ decodeCell = DecodeIdle
  /\ scoreRun \in UNION {{[ScoreIdle EXCEPT !.test = t, !.answers = a, !.pc = "input"] :
                             a \in ScoreInputs[t]} : t \in DOMAIN ScoreInputs}

\* Line 892: const ryff = this.calculateRyffResults(ryffAnswers)
CalculateRyff ==
  /\ scoreRun.test = "Ryff"
  /\ scoreRun.pc = "input"
  /\ scoreRun' = [scoreRun EXCEPT !.pc = "done",
                                  !.result = calculateRyffResults(scoreRun.answers)]
  /\ UNCHANGED <<appVars, sanCell, shtepaRun, prRun, decodeCell>>

\* Lines 1796-1808: the view asks for the level of each category score of the result.
GetRyffCategoryLevel ==
  /\ scoreRun.test = "Ryff"
  /\ scoreRun.pc = "done"
  /\ scoreRun' =
       [scoreRun EXCEPT
          !.pc = "shown",
          !.levels = [k \in DOMAIN ryffCategories |->
                        getRyffCategoryLevel(scoreRun.result[k].score,
                                             ryffCategories[k].lowThreshold,
                                             ryffCategories[k].highThreshold)]]
  /\ UNCHANGED <<appVars, sanCell, shtepaRun, prRun, decodeCell>>

\* Line 863: const basicPh = this.calculateBasicPhResults(basicPhAnswers)
CalculateBasicPh ==
  /\ scoreRun.test = "BasicPh"
  /\ scoreRun.pc = "input"
  /\ scoreRun' = [scoreRun EXCEPT !.pc = "done",
                                  !.result = calculateBasicPhResults(scoreRun.answers)]
  /\ UNCHANGED <<appVars, sanCell, shtepaRun, prRun, decodeCell>>

\* Lines 838-842: the three averages of the SAN result.
CalculateSan ==
  /\ scoreRun.test = "SAN"
  /\ scoreRun.pc = "input"
  /\ scoreRun' =
       [scoreRun EXCEPT
          !.pc = "done",
          !.result = [wellbeing |-> calculateAverage(scoreRun.answers, wellbeingQuestions),
                      activity |-> calculateAverage(scoreRun.answers, activityQuestions),
                      mood |-> calculateAverage(scoreRun.answers, moodQuestions)]]
  /\ UNCHANGED <<appVars, sanCell, shtepaRun, prRun, decodeCell>>

NextScore == CalculateRyff \/ GetRyffCategoryLevel \/ CalculateBasicPh \/ CalculateSan

SpecScore == InitScore /\ [][NextScore]_vars

(***************************************************************************)
(* Specification SpecDecode: convertShtepaAnswer, convertBasicPhAnswer,    *)
(* convertPersonalResourceAnswer and convertRyffAnswer applied to one cell,*)
(* and parseCSVLine applied to one line.                                   *)
(***************************************************************************)
\* How long the lines given to parseCSVLine are at most.
MaxLineLen == 4

\* The cell texts decoded in SpecDecode.
\* For every questionnaire: the numbers "-1", "0" .. "7", "12", "+3", " 4 ", the texts
\* "3abc", "4.7", "2,5", "x5", "- 2" that hold a number, and "", "abc", "?".
\* Each phrase and keyword of a questionnaire is tried in lower case, with a capital
\* first letter, in capitals, between blanks, and inside a longer text.
\* Basic Ph also: "майже завжди" inside a sentence, and the start of the full answer
\* for "always" and "almost always" without its ending.
\* Shtepa: "Так", "Ні", "+", "-" in several spellings, and other words.
\* CSV: every line of at most MaxLineLen characters out of 'a', ' ', ',' and '"'.
DecodeTexts ==
  LET UpperChar(c) == IF c \in 97..122 \/ c \in 1072..1103 THEN c - 32
                      ELSE IF c \in 1104..1119 THEN c - 80 ELSE c
      Upper(s) == [i \in 1..Len(s) |-> UpperChar(s[i])]
      Capital(s) == [i \in 1..Len(s) |-> IF i = 1 THEN UpperChar(s[i]) ELSE s[i]]
      Spellings(s) ==
        {s, Capital(s), Upper(s), <<32>> \o Capital(s) \o <<32, 32>>,
         <<45, 32>> \o Capital(s) \o <<46>>}
      Seqs(table) == {table[i] : i \in 1..Len(table)}
      numbers ==
        {<<45, 49>>,
         <<48>>,
         <<49>>,
         <<50>>,
         <<51>>,
         <<52>>,
         <<53>>,
         <<54>>,
         <<55>>,
         <<49, 50>>,
         <<43, 51>>,
         <<32, 52, 32>>,
         <<51, 97, 98, 99>>,
         <<52, 46, 55>>,
         <<50, 44, 53>>,
         <<>>,
         <<97, 98, 99>>,
         <<63>>,
         <<120, 53>>,
         <<45, 32, 50>>}
  IN  [CSV |-> UNION {[1..n -> {97, 32, COMMA, QUOTE}] : n \in 0..MaxLineLen},
       Shtepa |->
         UNION {Spellings(s) : s \in {<<1090, 1072, 1082>>, <<1085, 1110>>, <<43>>, <<45>>}}
           \cup {<<>>, <<49>>, <<121, 101, 115>>},
       BasicPh |->
         numbers
           \cup UNION {Spellings(s) : s \in Seqs(answerMap) \cup Seqs(basicPhKeywords)}
           \cup {<<1103, 32>> \o basicPhKeywords[6] \o <<32, 1090, 1072, 1082>>,
                 Capital(basicPhKeywords[6]) \o SubSeq(basicPhEnding, 1, 11),
                 Capital(basicPhKeywords[7]) \o SubSeq(basicPhEnding, 1, 11)},
       PersonalResources |->
         numbers
           \cup UNION {Spellings(s) : s \in UNION Seqs(personalResourcePhrases)},
       Ryff |->
         numbers \cup UNION {Spellings(s) : s \in Seqs(ryffPhrases)}]

InitDecode ==
  /\ AppInit
  /\ sanCell = SanIdle
  /\ shtepaRun = ShtepaIdle
  /\ prRun = PrIdle
  /\ scoreRun = ScoreIdle
  /\ decodeCell \in UNION {{[DecodeIdle EXCEPT !.test = t, !.rawValue = v,
                                               !.questionNum = 1, !.pc = "input"] :
                              v \in DecodeTexts[t]} : t \in DOMAIN DecodeTexts}

\* Line 848: convertShtepaAnswer(rawValue, questionNum, email)
ConvertShtepa ==
  /\ decodeCell.test = "Shtepa"
  /\ decodeCell.pc = "input"
  /\ decodeCell' = [decodeCell EXCEPT
                      !.pc = "done",
                      !.result = shtepaAnswer(decodeCell.rawValue, decodeCell.questionNum,
                                              SampleEmail)]
  /\ UNCHANGED <<appVars, sanCell, shtepaRun, prRun, scoreRun>>

\* Line 859: convertBasicPhAnswer(rawValue, questionNum, email)
ConvertBasicPh ==
  /\ decodeCell.test = "BasicPh"
  /\ decodeCell.pc = "input"
  /\ decodeCell' = [decodeCell EXCEPT
                      !.pc = "done",
                      !.result = basicPhAnswer(decodeCell.rawValue, decodeCell.questionNum,
                                               SampleEmail)]
  /\ UNCHANGED <<appVars, sanCell, shtepaRun, prRun, scoreRun>>

\* Lines 870-874: convertPersonalResourceAnswer(rawValue, questionNum, email)
ConvertPersonalResource ==
  /\ decodeCell.test = "PersonalResources"
  /\ decodeCell.pc = "input"
  /\ decodeCell' = [decodeCell EXCEPT
                      !.pc = "done",
                      !.result = personalResourceAnswer(decodeCell.rawValue,
                                                        decodeCell.questionNum,
                                                        SampleEmail)]
  /\ UNCHANGED <<appVars, sanCell, shtepaRun, prRun, scoreRun>>

\* Line 887: convertRyffAnswer(rawValue, questionNum, email)
ConvertRyff ==
  /\ decodeCell.test = "Ryff"
  /\ decodeCell.pc = "input"
  /\ decodeCell' = [decodeCell EXCEPT
                      !.pc = "done",
                      !.result = ryffAnswer(decodeCell.rawValue, decodeCell.questionNum,
                                            SampleEmail)]
  /\ UNCHANGED <<appVars, sanCell, shtepaRun, prRun, scoreRun>>

\* Line 810: parseCSVLine(line)
ParseCSVLine ==
  /\ decodeCell.test = "CSV"
  /\ decodeCell.pc = "input"
  /\ decodeCell' = [decodeCell EXCEPT
                      !.pc = "done",
                      !.result = Decoded(parseCSVLine(decodeCell.rawValue))]
  /\ UNCHANGED <<appVars, sanCell, shtepaRun, prRun, scoreRun>>

NextDecode ==
  \/ ConvertShtepa
  \/ ConvertBasicPh
  \/ ConvertPersonalResource
  \/ ConvertRyff
  \/ ParseCSVLine

SpecDecode == InitDecode /\ [][NextDecode]_vars

(***************************************************************************)
(* Specification SpecModal: openRyffDetail and closeRyffDetail on the       *)
(* result set of a completed load.                                         *)
(***************************************************************************)
\* The state after "ok.csv" or "mixed.csv" was loaded.
InitModal ==
  /\ \E f \in {1, 2} :
       /\ respondents = fileOutcome[f].rows.pushed
       /\ fileName = Files[f].name
       /\ console = fileOutcome[f].rows.log
       /\ lastEvent = [op |-> "onload", file |-> f]
  /\ isLoading = FALSE
  /\ errorMessage = ""
  /\ pendingReads = [f \in FileIds |-> 0]
  /\ showRyffDetailModal = FALSE
  /\ ryffDetailRespondent = <<>>
  /\ ryffDetailCategory = ""
  /\ ryffDetailQuestions = <<>>
  /\ sanCell = SanIdle
  /\ shtepaRun = ShtepaIdle
  /\ prRun = PrIdle
  /\ decodeCell = DecodeIdle
  /\ scoreRun = ScoreIdle

\* How many times a key that names nothing is given.
MaxUnknownKeys == 1

\* The category keys given: the six of ryffCategories, one that names nothing, and
\* "toString".
NextModal ==
  \/ \E i \in 1..Len(respondents) :
       \E categoryKey \in DOMAIN ryffCategories \cup {"wellbeing", "toString"} :
         /\ categoryKey = "wellbeing" =>
              Cardinality({d \in 1..Len(console) :
                             console[d].kind = "Unknown Ryff category"}) < MaxUnknownKeys
         /\ openRyffDetail(i, categoryKey)
         /\ UNCHANGED <<sanCell, shtepaRun, prRun, decodeCell, scoreRun>>
  \/ closeRyffDetail /\ UNCHANGED <<sanCell, shtepaRun, prRun, decodeCell, scoreRun>>

SpecModal == InitModal /\ [][NextModal]_vars

(***************************************************************************)
(* Claims                                                                  *)
(***************************************************************************)
\* A load has completed: the last handler that ran is reader.onload.
loadDone == lastEvent.op = "onload"

\* The data rows of a file, tokenized: every non-blank line after the first.
dataRowColumns ==
  [f \in FileIds |->
     LET lines == nonBlankLines(Files[f].content)
     IN  IF Len(lines) < 2 THEN <<>>
         ELSE [k \in 1..(Len(lines) - 1) |-> parseCSVLine(lines[k + 1])] \o <<>>]

IsWideRow(columns) == Len(columns) >= 233

\* The second column (the respondent's identifier) of the data rows of a file that
\* have at least 233 fields, in file order.
wideRowEmails ==
  [f \in FileIds |->
     LET wide == SelectSeq(dataRowColumns[f], IsWideRow)
     IN  [k \in 1..Len(wide) |-> wide[k][2]] \o <<>>]

respondentEmails == [i \in 1..Len(respondents) |-> respondents[i].email]

\* C1: after a load completes the result set holds exactly the records of the rows
\* that load accepted, whatever it held before; when the content has fewer than 2
\* non-blank lines or none of its data rows has enough fields, an error message is set
\* and the result set is empty.
C1_LoadReplaces ==
  loadDone =>
    /\ respondents = fileOutcome[lastEvent.file].rows.pushed
    /\ (wideRowEmails[lastEvent.file] = <<>> =>
          errorMessage # "" /\ Len(respondents) = 0)

\* C2: after the load of a content with data rows, the result set has one record per
\* data row of at least 233 fields and none for a row with fewer, in the order of the
\* rows: the records' identifiers are those of the rows with at least 233 fields.
C2_RowAcceptance ==
  (loadDone /\ dataRowColumns[lastEvent.file] # <<>>) =>
    /\ Len(respondents) =
         Cardinality({k \in 1..Len(dataRowColumns[lastEvent.file]) :
                        Len(dataRowColumns[lastEvent.file][k]) >= 233})
    /\ respondentEmails = wideRowEmails[lastEvent.file]

\* A load of "mixed.csv" completed: of its five data rows, those with 10 and with 232
\* fields are skipped and the three others are recorded.
C2_Witness ==
  /\ loadDone
  /\ lastEvent.file = 2
  /\ Len(dataRowColumns[2]) = 5
  /\ \E k \in 1..5 : Len(dataRowColumns[2][k]) = 232
  /\ \E k \in 1..5 : Len(dataRowColumns[2][k]) = 233
  /\ \E k \in 1..5 : Len(dataRowColumns[2][k]) = 234
  /\ Len(respondents) = 3

\* The answer array of a record for a questionnaire, and the value a cell of that
\* questionnaire contributes when it fails to decode.
answersOf(record, test) ==
  CASE test = "SAN" -> record.sanAnswers
    [] test = "Shtepa" -> record.shtepaAnswers
    [] test = "Basic Ph" -> record.basicPhAnswers
    [] test = "Personal Resources" -> record.personalResourceAnswers
    [] test = "Ryff" -> record.ryffAnswers

defaultOf(test) ==
  CASE test = "SAN" -> 4
    [] test = "Shtepa" -> FALSE
    [] test = "Basic Ph" -> 0
    [] test = "Personal Resources" -> 3
    [] test = "Ryff" -> 3

\* C3: every record of the result set has answer arrays of lengths 30, 67, 36, 13 and
\* 84, and for every cell that the last load failed to decode the record of that row
\* holds the questionnaire's default at the cell's question.
C3_AnswerArrays ==
  /\ \A i \in 1..Len(respondents) :
       /\ Len(respondents[i].sanAnswers) = 30
       /\ Len(respondents[i].shtepaAnswers) = 67
       /\ Len(respondents[i].basicPhAnswers) = 36
       /\ Len(respondents[i].personalResourceAnswers) = 13
       /\ Len(respondents[i].ryffAnswers) = 84
  /\ loadDone =>
       \A d \in 1..Len(console) :
         console[d].test # "CSV" =>
           \A i \in 1..Len(respondents) :
             respondents[i].email = console[d].email =>
               answersOf(respondents[i], console[d].test)[console[d].questionNum]
                 = defaultOf(console[d].test)

\* A load of "ok.csv" completed: its second row has cells that failed to decode in
\* each of the five questionnaires, and its record is in the result set.
C3_Witness ==
  /\ loadDone
  /\ lastEvent.file = 1
  /\ Len(respondents) = 2
  /\ \A t \in {"SAN", "Shtepa", "Basic Ph", "Personal Resources", "Ryff"} :
       \E d \in 1..Len(console) :
         console[d].test = t /\ console[d].email = respondents[2].email

sanDone == sanCell.pc = "done"
sanValue == sanCell.result.value

\* C4: for every keyword k of the negative-sense list "3 (k)" decodes to 1, and for
\* every keyword k of the positive-sense list "3 (k)" decodes to 7, whatever the
\* reversed flag is.
C4_SanExtremes ==
  sanDone =>
    /\ \A i \in 1..Len(negativeKeywords) :
         sanCell.rawValue = ExtremeText(negativeKeywords[i]) => sanValue = 1
    /\ \A i \in 1..Len(positiveKeywords) :
         sanCell.rawValue = ExtremeText(positiveKeywords[i]) => sanValue = 7

\* The trimmed text, its digits and its marker, as the claims speak of them.
sanDigits == RemoveNonDigits(Trim(sanCell.rawValue))
sanHasMarker == Len(Trim(sanCell.rawValue)) > Len(sanDigits)

\* The questionnaire's text for a middle value v in 2..6 (file header, lines 28-32):
\* left of the centre the digit carries the filler, right of it the digit is bare;
\* a reversed question lists the sides in the other order.
sanCanonicalText(v, isReversed) ==
  LET side == IF isReversed THEN 8 - v ELSE v
  IN  IF side = 6 THEN <<50, 12644>>
      ELSE IF side = 5 THEN <<49, 12644>>
      ELSE IF side = 4 THEN <<48>>
      ELSE IF side = 3 THEN <<49>>
      ELSE <<50>>

\* C5: digits "0" decode to 4; digits "1" to 5 with a marker and 3 without (3 and 5
\* when reversed); digits "2" to 6 with a marker and 2 without (2 and 6 when
\* reversed); so the canonical text of each value 2..6 decodes back to that value and
\* no other canonical text of the same polarity decodes to it.
C5_SanMiddle ==
  sanDone =>
    /\ sanDigits = <<48>> => sanValue = 4
    /\ sanDigits = <<49>> =>
         sanValue = IF sanHasMarker = sanCell.isReversed THEN 3 ELSE 5
    /\ sanDigits = <<50>> =>
         sanValue = IF sanHasMarker = sanCell.isReversed THEN 2 ELSE 6
    /\ \A v \in 2..6 :
         (sanCell.rawValue = sanCanonicalText(v, sanCell.isReversed)) <=>
           (sanValue = v /\ \E w \in 2..6 :
                              sanCell.rawValue = sanCanonicalText(w, sanCell.isReversed))

C5_Witness ==
  /\ sanDone
  /\ sanCell.isReversed
  /\ sanCell.rawValue = <<50, 12644>>
  /\ sanValue = 2

\* C6: the result is an integer in 1..7, and every decode failure (a bare "3", a
\* "3 (...)" whose description matches no keyword, any other unrecognized text)
\* returns the center value 4.
C6_SanRange ==
  sanDone =>
    /\ sanValue \in 1..7
    /\ sanCell.result.log # <<>> => sanValue = 4
    /\ sanDigits = <<51>> /\ ~StartsWith(Trim(sanCell.rawValue), <<51, 32, 40>>)
         /\ ~StartsWith(Trim(sanCell.rawValue), <<51, 40>>) => sanValue = 4
    /\ sanDigits \notin {<<48>>, <<49>>, <<50>>}
         /\ (\A i \in 1..Len(positiveKeywords) :
               ~Includes(ToLowerCase(sanCell.rawValue), positiveKeywords[i]))
         /\ (\A i \in 1..Len(negativeKeywords) :
               ~Includes(ToLowerCase(sanCell.rawValue), negativeKeywords[i]))
         => sanValue = 4

C6_Witness ==
  /\ sanDone
  /\ sanCell.rawValue = <<51>>
  /\ sanValue = 4
  /\ Len(sanCell.result.log) = 1

shtepaDone == shtepaRun.pc = "done"
shtepaScore(c) == shtepaRun.result.categories[c].score

\* The slots of category c the answers match.
shtepaMatches(c) ==
  {j \in 1..Len(shtepaCategories[c].questions) :
     shtepaRun.answers[shtepaCategories[c].questions[j].num]
       = shtepaCategories[c].questions[j].expected}

RECURSIVE SumTo(_, _)
SumTo(f, n) == IF n = 0 THEN 0 ELSE SumTo(f, n - 1) + f[n]

\* C8: each of the 14 subtotals is the number of its slots whose answer equals the
\* expected one; each category has 8 slots, so the subtotal is in 0..8 with maxScore 8,
\* and the total is the sum of the 14 subtotals.
C8_ShtepaSubtotals ==
  shtepaDone =>
    /\ Len(shtepaRun.result.categories) = 14
    /\ \A c \in 1..14 :
         /\ shtepaScore(c) = Cardinality(shtepaMatches(c))
         /\ Len(shtepaCategories[c].questions) = 8
         /\ shtepaScore(c) \in 0..8
         /\ shtepaRun.result.categories[c].maxScore = 8
    /\ shtepaRun.result.totalScore
         = SumTo([c \in 1..14 |-> Cardinality(shtepaMatches(c))], 14)

C8_Witness ==
  /\ shtepaDone
  /\ shtepaScore(2) = 8
  /\ shtepaScore(3) = 2
  /\ shtepaRun.result.totalScore > 8

\* C9: the total of any 67 answers lies in 0..112 and falls in exactly one of five
\* contiguous bands: 0..56 not diagnosed, 57..69 low, 70..92 medium, 93..106 high,
\* 107..112 doubtful.
C9_ShtepaBands ==
  shtepaDone =>
    LET t == shtepaRun.result.totalScore
        cls == shtepaRun.result.totalLevelClass
    IN  /\ t \in 0..112
        /\ (t \in 0..56) <=> (cls = "not-diagnosed")
        /\ (t \in 57..69) <=> (cls = "low")
        /\ (t \in 70..92) <=> (cls = "medium")
        /\ (t \in 93..106) <=> (cls = "high")
        /\ (t \in 107..112) <=> (cls = "doubtful")
        /\ shtepaRun.result.totalLevel
             = (CASE cls = "not-diagnosed" -> "not diagnosed"
                  [] cls = "low" -> "low level"
                  [] cls = "medium" -> "medium level"
                  [] cls = "high" -> "high level"
                  [] cls = "doubtful" -> "doubtful data")

C9_Witness ==
  /\ shtepaDone
  /\ shtepaRun.result.totalScore = 56
  /\ shtepaRun.result.totalLevelClass = "not-diagnosed"

\* Scenario A as far as any answers can realise it: every slot of the first category
\* is matched and every slot on a question outside the first category is mismatched.
shtepaScenarioA ==
  /\ shtepaMatches(1) = 1..Len(shtepaCategories[1].questions)
  /\ \A c \in 2..Len(shtepaCategories) :
       \A j \in 1..Len(shtepaCategories[c].questions) :
         shtepaCategories[c].questions[j].num \notin shtepaNums(1)
           => j \notin shtepaMatches(c)

\* C7 as stated: in scenario A the first subtotal is 8, every other subtotal is 0, the
\* total is 8 and the level is "not diagnosed".
C7_ScenarioA_AsStated ==
  shtepaDone /\ shtepaScenarioA =>
    /\ shtepaScore(1) = 8
    /\ \A c \in 2..14 : shtepaScore(c) = 0
    /\ shtepaRun.result.totalScore = 8
    /\ shtepaRun.result.totalLevelClass = "not-diagnosed"

\* C7 (amended): in scenario A the first subtotal is 8, every other subtotal is the
\* number of its slots on questions shared with the first category (Success 2; Love,
\* Striving for wisdom, Work on oneself, Self-realization in profession and
\* Responsibility 1 each; the others 0), the total is 15 and the level is
\* "not diagnosed".
C7_ScenarioA ==
  shtepaDone /\ shtepaScenarioA =>
    /\ shtepaScore(1) = 8
    /\ \A c \in 2..14 :
         shtepaScore(c)
           = Cardinality({j \in 1..8 :
                           shtepaCategories[c].questions[j].num \in shtepaNums(1)})
    /\ [c \in 1..14 |-> shtepaScore(c)] = <<8, 0, 0, 2, 1, 0, 0, 1, 1, 1, 1, 0, 0, 0>>
    /\ shtepaRun.result.totalScore = 15
    /\ shtepaRun.result.totalLevelClass = "not-diagnosed"
    /\ shtepaRun.result.totalLevel = "not diagnosed"

C7_Witness ==
  /\ shtepaDone
  /\ shtepaScenarioA
  /\ shtepaScore(1) = 8
  /\ shtepaRun.result.totalScore = 15

prDone == prRun.pc = "done"

\* C10: Sufficiency is the sum of the answers to questions 1,2,4,5,9,10, Coping of
\* 3,6,8,12, Exhaustion of 7,11,13, the total is Sufficiency + Coping - Exhaustion,
\* and raising one Exhaustion answer by 1 with the others fixed lowers the total by 1.
C10_PrFormula ==
  [][/\ prDone' =>
          LET a == prRun'.answers
              r == prRun'.result
          IN  /\ r.sufficiency.score = a[1] + a[2] + a[4] + a[5] + a[9] + a[10]
              /\ r.copingStrategies.score = a[3] + a[6] + a[8] + a[12]
              /\ r.emotionalExhaustion.score = a[7] + a[11] + a[13]
              /\ r.totalScore = r.sufficiency.score + r.copingStrategies.score
                                  - r.emotionalExhaustion.score
     /\ \A q \in {7, 11, 13} :
          (prDone /\ prDone' /\ prRun'.answers = [prRun.answers EXCEPT ![q] = @ + 1])
            => prRun'.result.totalScore = prRun.result.totalScore - 1
    ]_vars

C10_Witness ==
  /\ prDone
  /\ prRun.raises = 1
  /\ prRun.answers = <<5, 5, 3, 4, 4, 3, 2, 2, 4, 3, 3, 2, 1>>
  /\ prRun.result.totalScore = 29
\* The label of a score under the 3-way rule with bounds low and high, and the class
\* that agrees with a label.
bandOf(score, low, high) ==
  IF score < low THEN "Low" ELSE IF score > high THEN "High" ELSE "Medium"

classOf(label) ==
  CASE label = "Low" -> "low" [] label = "Medium" -> "medium" [] label = "High" -> "high"

\* C11: Sufficiency is low below 13, medium for 13..21 and high above 21; Coping is
\* low below 13, medium for 13..18 and high above 18; the total is low below 15,
\* medium for 15..30 and high above 30, so a score at a bound is medium; Sufficiency
\* 25, Coping 10 and Exhaustion 5 give high, low and a total of 30 that is medium.
C11_PrBands ==
  prDone =>
    LET r == prRun.result
    IN  /\ r.sufficiency.level = bandOf(r.sufficiency.score, 13, 21)
        /\ r.copingStrategies.level = bandOf(r.copingStrategies.score, 13, 18)
        /\ r.totalLevel = bandOf(r.totalScore, 15, 30)
        /\ r.sufficiency.score \in {13, 21} => r.sufficiency.level = "Medium"
        /\ r.copingStrategies.score \in {13, 18} => r.copingStrategies.level = "Medium"
        /\ r.totalScore \in {15, 30} => r.totalLevel = "Medium"
        /\ (r.sufficiency.score = 25 /\ r.copingStrategies.score = 10
              /\ r.emotionalExhaustion.score = 5) =>
             /\ r.sufficiency.level = "High"
             /\ r.copingStrategies.level = "Low"
             /\ r.totalScore = 30
             /\ r.totalLevel = "Medium"

\* Scenario B has been scored.
C11_Witness ==
  /\ prDone
  /\ prRun.result.sufficiency.score = 25
  /\ prRun.result.copingStrategies.score = 10
  /\ prRun.result.emotionalExhaustion.score = 5
  /\ prRun.result.totalLevel = "Medium"

\* C12: the Exhaustion label is low below 8, medium for 8..12 and high above 12, and
\* its class is the opposite one: "high" exactly for the low label, "low" exactly for
\* the high label, "medium" otherwise; for Sufficiency, Coping and the total the class
\* agrees with the label.
C12_ExhaustionInverted ==
  prDone =>
    LET r == prRun.result
        e == r.emotionalExhaustion
    IN  /\ e.level = bandOf(e.score, 8, 12)
        /\ (e.levelClass = "high") <=> (e.level = "Low")
        /\ (e.levelClass = "low") <=> (e.level = "High")
        /\ (e.levelClass = "medium") <=> (e.level = "Medium")
        /\ r.sufficiency.levelClass = classOf(r.sufficiency.level)
        /\ r.copingStrategies.levelClass = classOf(r.copingStrategies.level)
        /\ r.totalLevelClass = classOf(r.totalLevel)

\* An exhaustion score of 7, the highest with the low label, has been scored.
C12_Witness ==
  /\ prDone
  /\ prRun.result.emotionalExhaustion.score = 7
  /\ prRun.result.emotionalExhaustion.levelClass = "high"

scored(test) == scoreRun.test = test /\ scoreRun.pc \in {"done", "shown"}

\* What the slots of Ryff category k add up to for the answers a when a reversed slot
\* counts 7 - v and any other slot counts v.
ryffSlotSum(k, a) ==
  SumTo([j \in 1..14 |->
           IF ryffCategories[k].questions[j].isReversed
           THEN 7 - a[ryffCategories[k].questions[j].num]
           ELSE a[ryffCategories[k].questions[j].num]], 14)

\* C13: each Ryff category has 14 slots and its score is the sum over them of v for
\* a plain slot and 7 - v for a reversed one; on the sheet with every answer v
\* replaced by 7 - v (1..6 onto 6..1) the reversed slots count v again, so the two
\* scores of a category add up to 14 * 7; the total is the sum of the six scores.
C13_RyffSums ==
  scored("Ryff") =>
    LET a == scoreRun.answers
        r == scoreRun.result
        mirrored == calculateRyffResults([n \in 1..84 |-> 7 - a[n]])
    IN  /\ \A n \in 1..84 : 7 - a[n] \in 1..6 /\ 7 - (7 - a[n]) = a[n]
        /\ \A k \in DOMAIN ryffCategories :
             /\ Len(ryffCategories[k].questions) = 14
             /\ r[k].score = ryffSlotSum(k, a)
             /\ mirrored[k].score = 14 * 7 - r[k].score
        /\ r.totalScore = r.relationships.score + r.autonomy.score + r.environment.score
                            + r.growth.score + r.purpose.score + r.selfAcceptance.score

\* A sheet with answers that differ on a plain and a reversed slot of one category has
\* been scored.
C13_Witness ==
  /\ scored("Ryff")
  /\ scoreRun.answers[1] # scoreRun.answers[7]
  /\ scoreRun.result.relationships.score = 52
  /\ scoreRun.result.autonomy.score = 55

\* The (low, high) pair of each Ryff category and of the total.
ryffBounds ==
  [relationships |-> <<53, 74>>, autonomy |-> <<48, 62>>, environment |-> <<51, 71>>,
   growth |-> <<53, 71>>, purpose |-> <<54, 75>>, selfAcceptance |-> <<49, 71>>,
   total |-> <<315, 413>>]

\* C14: each Ryff category level, and the total level, is low iff the score is below
\* the low bound, high iff it is above the high bound and medium otherwise, so a
\* score at either bound is medium; the class agrees with the label, and the level
\* the view computes for a category score is the same.
C14_RyffLevels ==
  scored("Ryff") =>
    LET r == scoreRun.result
    IN  /\ \A k \in DOMAIN ryffCategories :
             /\ r[k].level = bandOf(r[k].score, ryffBounds[k][1], ryffBounds[k][2])
             /\ r[k].score \in {ryffBounds[k][1], ryffBounds[k][2]} =>
                  r[k].level = "Medium"
             /\ r[k].levelClass = classOf(r[k].level)
             /\ scoreRun.pc = "shown" =>
                  scoreRun.levels[k] = [level |-> r[k].level, class |-> r[k].levelClass]
        /\ r.totalLevel = bandOf(r.totalScore, ryffBounds.total[1], ryffBounds.total[2])
        /\ r.totalScore \in {315, 413} => r.totalLevel = "Medium"
        /\ r.totalLevelClass = classOf(r.totalLevel)

\* A sheet whose first category scores exactly its low bound has been scored and shown.
C14_Witness ==
  /\ scoreRun.test = "Ryff"
  /\ scoreRun.pc = "shown"
  /\ scoreRun.result.relationships.score = 53
  /\ scoreRun.levels.relationships.level = "Medium"

\* C15: each of the 6 Basic Ph subtotals is the sum of the answers to its 6 questions;
\* with every answer 6 each subtotal is 36, the reported maxScore; for answers in 0..6
\* each subtotal is in 0..36 and the total is the sum of the subtotals, in 0..216.
C15_BasicPhSums ==
  scored("BasicPh") =>
    LET a == scoreRun.answers
        r == scoreRun.result
    IN  /\ Len(r.categories) = 6
        /\ \A c \in 1..6 :
             /\ Len(basicPhCategories[c].questions) = 6
             /\ r.categories[c].score
                  = SumTo([j \in 1..6 |-> a[basicPhCategories[c].questions[j]]], 6)
             /\ r.categories[c].maxScore = 36
             /\ (\A n \in 1..36 : a[n] = 6) => r.categories[c].score = 36
             /\ (\A n \in 1..36 : a[n] \in 0..6) => r.categories[c].score \in 0..36
        /\ r.totalScore = SumTo([c \in 1..6 |-> r.categories[c].score], 6)
        /\ (\A n \in 1..36 : a[n] \in 0..6) => r.totalScore \in 0..216

\* The sheet with every answer at 6 has been scored.
C15_Witness ==
  /\ scored("BasicPh")
  /\ \A n \in 1..36 : scoreRun.answers[n] = 6
  /\ \A c \in 1..6 : scoreRun.result.categories[c].score = 36
  /\ scoreRun.result.totalScore = 216

\* C16: each SAN scale value is the mean of the 10 answers to its questions: ten times
\* the value is their sum (the value is held in hundredths, so it is ten times the
\* sum), and for answers in 1..7 it lies between 1 and 7.
C16_SanMeans ==
  scored("SAN") =>
    LET a == scoreRun.answers
        r == scoreRun.result
        sumOf(qs) == SumTo([j \in 1..10 |-> a[qs[j]]], 10)
    IN  /\ Len(wellbeingQuestions) = 10 /\ Len(activityQuestions) = 10
        /\ Len(moodQuestions) = 10
        /\ 10 * r.wellbeing = 100 * sumOf(wellbeingQuestions)
        /\ 10 * r.activity = 100 * sumOf(activityQuestions)
        /\ 10 * r.mood = 100 * sumOf(moodQuestions)
        /\ (\A n \in 1..30 : a[n] \in 1..7) =>
             /\ r.wellbeing \in 100..700
             /\ r.activity \in 100..700
             /\ r.mood \in 100..700

\* A sheet whose three scales have different means has been scored.
C16_Witness ==
  /\ scored("SAN")
  /\ scoreRun.result.wellbeing # scoreRun.result.activity
  /\ scoreRun.result.activity # scoreRun.result.mood
  /\ scoreRun.result.wellbeing % 100 # 0

\* The cell of SpecDecode after the decoder of `test` has returned.
decoded(test) == decodeCell.test = test /\ decodeCell.pc = "done"

\* What a decoder compares: the cell trimmed and in lower case.
decodeText == ToLowerCase(Trim(decodeCell.rawValue))

\* C17: convertBasicPhAnswer decodes each of the seven full answers, whatever their case,
\* to its level 0..6, and a text that contains "майже завжди" and none of the keywords
\* tried before it ("ніколи", "рідко", "іноді", "періодично", "часто") to 5, never to 6.
C17_BasicPhPhrases ==
  decoded("BasicPh") =>
    /\ \A i \in 1..7 : decodeText = answerMap[i] => decodeCell.result.value = i - 1
    /\ ( /\ Includes(decodeText, basicPhKeywords[6])
         /\ \A i \in 1..5 : ~Includes(decodeText, basicPhKeywords[i]) )
       => decodeCell.result.value = 5

\* A text that is not one of the full answers, written with a capital letter, holding
\* "майже завжди" (and so "завжди" too), decoded to 5.
C17_Witness ==
  /\ decoded("BasicPh")
  /\ \A i \in 1..7 : decodeText # answerMap[i]
  /\ decodeCell.rawValue # decodeText
  /\ Includes(decodeText, basicPhKeywords[6])
  /\ Includes(decodeText, basicPhKeywords[7])
  /\ decodeCell.result.value = 5

\* The five agreement phrases of the Personal Resources form, in lower case.
prCanonical ==
  <<
    <<1087, 1086, 1074, 1085, 1110, 1089, 1090, 1102, 32, 1085, 1077, 32, 1087, 1086, 1075, 1086, 1076, 1078, 1091, 1102, 1089, 1100>>,  \* "повністю не погоджуюсь"
    <<1095, 1072, 1089, 1090, 1082, 1086, 1074, 1086, 32, 1085, 1077, 32, 1087, 1086, 1075, 1086, 1076, 1078, 1091, 1089, 1100>>,  \* "частково не погоджусь"
    <<1074, 1072, 1078, 1082, 1086, 32, 1074, 1080, 1079, 1085, 1072, 1095, 1080, 1090, 1080, 1089, 1103>>,  \* "важко визначитися"
    <<1095, 1072, 1089, 1090, 1082, 1086, 1074, 1086, 32, 1087, 1086, 1075, 1086, 1076, 1078, 1091, 1102, 1089, 1100>>,  \* "частково погоджуюсь"
    <<1087, 1086, 1074, 1085, 1110, 1089, 1090, 1102, 32, 1087, 1086, 1075, 1086, 1076, 1078, 1091, 1102, 1089, 1100>>  \* "повністю погоджуюсь"
  >>

\* C18: convertPersonalResourceAnswer decodes a text that holds one of the five agreement
\* phrases, whatever its case and whatever surrounds it, to the phrase's level 1..5, and
\* likewise a text that holds a spelling variant or a frequency synonym of a level
\* ("рідко" gives 2); no phrase is taken by the rule of a level tried before its own.
C18_PrPhrases ==
  decoded("PersonalResources") =>
    /\ \A i \in 1..5 : Includes(decodeText, prCanonical[i]) => decodeCell.result.value = i
    /\ \A i \in 1..5 : \A phrase \in personalResourcePhrases[i] :
         Includes(decodeText, phrase) => decodeCell.result.value = i
    /\ Includes(decodeText, <<1088, 1110, 1076, 1082, 1086>>) => decodeCell.result.value = 2

\* "Частково погоджуюсь" inside a longer text, with its capital letter, decoded to 4.
C18_Witness ==
  /\ decoded("PersonalResources")
  /\ Includes(decodeText, prCanonical[4])
  /\ decodeText # prCanonical[4]
  /\ decodeCell.rawValue # decodeText
  /\ decodeCell.result.value = 4

\* C19: convertRyffAnswer decodes a text that holds one of the six agreement phrases,
\* whatever its case and whatever surrounds it, to that phrase's own level 1..6; no phrase
\* is decoded to the level of another, shorter phrase.
C19_RyffPhrases ==
  decoded("Ryff") =>
    \A i \in 1..6 : Includes(decodeText, ryffPhrases[i]) => decodeCell.result.value = i

\* "де в чому не згоден" inside a longer text decoded to 3, not to the level 4 of
\* "де в чому згоден".
C19_Witness ==
  /\ decoded("Ryff")
  /\ Includes(decodeText, ryffPhrases[3])
  /\ decodeText # ryffPhrases[3]
  /\ decodeCell.result.value = 3

\* The answers of a scale and the answer given to a text that cannot be decoded.
scaleOf(test) ==
  CASE test = "BasicPh" -> [range |-> 0..6, default |-> 0]
    [] test = "PersonalResources" -> [range |-> 1..5, default |-> 3]
    [] test = "Ryff" -> [range |-> 1..6, default |-> 3]

\* The text holds a phrase or keyword of the scale.
matchesPhrase(test, text) ==
  CASE test = "BasicPh" ->
         \/ \E i \in 1..7 : text = answerMap[i]
         \/ \E i \in 1..7 : Includes(text, basicPhKeywords[i])
    [] test = "PersonalResources" ->
         \E i \in 1..5 : \E phrase \in personalResourcePhrases[i] : Includes(text, phrase)
    [] test = "Ryff" -> \E i \in 1..6 : Includes(text, ryffPhrases[i])

\* The text is a run of decimal digits.
isDigits(text) == text # <<>> /\ \A i \in 1..Len(text) : text[i] \in 48..57

RECURSIVE digitsValue(_)
\* The number a run of decimal digits writes.
digitsValue(text) ==
  IF text = <<>> THEN 0
  ELSE 10 * digitsValue(SubSeq(text, 1, Len(text) - 1)) + (text[Len(text)] - 48)

\* C20: for convertBasicPhAnswer, convertPersonalResourceAnswer and convertRyffAnswer, a
\* text that holds no phrase or keyword decodes to its integer value when that lies in
\* 0..6, 1..5, 1..6 respectively, and to 0, 3, 3 respectively when it lies outside or the
\* text holds no integer; for every text the result lies in the range of the scale.
C20_NumbersAndDefaults ==
  \A test \in {"BasicPh", "PersonalResources", "Ryff"} :
    decoded(test) =>
      LET scale == scaleOf(test)
          numValue == ParseInt(decodeText)
          value == decodeCell.result.value
      IN  /\ value \in scale.range
          /\ ~matchesPhrase(test, decodeText) =>
               /\ isDigits(decodeText) =>
                    value = IF digitsValue(decodeText) \in scale.range
                            THEN digitsValue(decodeText) ELSE scale.default
               /\ numValue.isNaN => value = scale.default
               /\ ~numValue.isNaN =>
                    value = IF numValue.value \in scale.range
                            THEN numValue.value ELSE scale.default

\* "7" decoded by convertRyffAnswer to the default 3.
C20_Witness ==
  /\ decoded("Ryff")
  /\ ~matchesPhrase("Ryff", decodeText)
  /\ isDigits(decodeText)
  /\ digitsValue(decodeText) = 7
  /\ decodeCell.result.value = 3

\* C21: convertShtepaAnswer returns true exactly for the texts that, trimmed and in lower
\* case, are "так" or "+"; "ні" and "-" give false and log nothing; every other text gives
\* false and logs one diagnostic carrying the question number, the email and the text.
C21_ShtepaDecoder ==
  decoded("Shtepa") =>
    LET yes == decodeText \in {<<1090, 1072, 1082>>, <<43>>}
        no == decodeText \in {<<1085, 1110>>, <<45>>}
        result == decodeCell.result
    IN  /\ result.value = yes
        /\ (yes \/ no) => result.log = <<>>
        /\ ~(yes \/ no) =>
             /\ Len(result.log) = 1
             /\ result.log[1].test = "Shtepa"
             /\ result.log[1].questionNum = decodeCell.questionNum
             /\ result.log[1].email = SampleEmail
             /\ result.log[1].rawValue = decodeCell.rawValue

\* "ТАК" or " Так  " decoded to true.
C21_Witness ==
  /\ decoded("Shtepa")
  /\ decodeText = <<1090, 1072, 1082>>
  /\ decodeCell.rawValue # decodeText
  /\ decodeCell.result.value = TRUE

\* The columns of a questionnaire's answers: question q is field offset + q of the row,
\* counted from 1.
columnsOf(test) ==
  CASE test = "SAN" -> [offset |-> 3, count |-> 30]
    [] test = "Shtepa" -> [offset |-> 33, count |-> 67]
    [] test = "Basic Ph" -> [offset |-> 100, count |-> 36]
    [] test = "Personal Resources" -> [offset |-> 136, count |-> 13]
    [] test = "Ryff" -> [offset |-> 149, count |-> 84]

\* Texts that are no answer of the questionnaire: "3" and "??" for SAN, "maybe" and ""
\* for Shtepa, "9" for Basic Ph, "0" for Personal Resources, "7" for Ryff.
unrecognizedBy(test) ==
  CASE test = "SAN" -> {<<51>>, <<63, 63>>}
    [] test = "Shtepa" -> {<<109, 97, 121, 98, 101>>, <<>>}
    [] test = "Basic Ph" -> {<<57>>}
    [] test = "Personal Resources" -> {<<48>>}
    [] test = "Ryff" -> {<<55>>}

\* C22: for every cell of a row with at least 233 fields that its decoder does not
\* recognize, the console holds a diagnostic with the test, the question number, the
\* row's identifier and the cell's text; the row is recorded all the same, with the default
\* at that question, and so are the rows after it.
C22_FailuresLoggedRowKept ==
  (loadDone /\ dataRowColumns[lastEvent.file] # <<>>) =>
    LET wide == SelectSeq(dataRowColumns[lastEvent.file], IsWideRow)
    IN  /\ Len(respondents) = Len(wide)
        /\ \A i \in 1..Len(wide) :
             /\ respondents[i].email = wide[i][2]
             /\ \A t \in {"SAN", "Shtepa", "Basic Ph", "Personal Resources", "Ryff"} :
                  \A q \in 1..columnsOf(t).count :
                    wide[i][columnsOf(t).offset + q] \in unrecognizedBy(t) =>
                      /\ \E d \in 1..Len(console) :
                           /\ console[d].test = t
                           /\ console[d].questionNum = q
                           /\ console[d].email = wide[i][2]
                           /\ console[d].rawValue = wide[i][columnsOf(t).offset + q]
                      /\ answersOf(respondents[i], t)[q] = defaultOf(t)

\* A load of "mixed.csv" completed: its second accepted row has unrecognized cells in all
\* five questionnaires, each logged, and the row after it is recorded too.
C22_Witness ==
  /\ loadDone
  /\ lastEvent.file = 2
  /\ Len(respondents) = 3
  /\ respondents[2].email = sampleEmails[4]
  /\ respondents[3].email = sampleEmails[5]
  /\ \A t \in {"SAN", "Shtepa", "Basic Ph", "Personal Resources", "Ryff"} :
       \E q \in 1..columnsOf(t).count :
         /\ flawedCells(4)[columnsOf(t).offset + q] \in unrecognizedBy(t)
         /\ \E d \in 1..Len(console) :
              /\ console[d].test = t
              /\ console[d].questionNum = q
              /\ console[d].email = sampleEmails[4]

\* The comma at position i of the line lies outside quotes: an even number of quote
\* characters stands before it.
commaOutsideQuotes(line, i) ==
  /\ line[i] = COMMA
  /\ Cardinality({j \in 1..(i - 1) : line[j] = QUOTE}) % 2 = 0

\* C23: parseCSVLine returns one field more than the line has commas outside quotes; no
\* field holds a quote character, and no field starts or ends with white space.
C23_Tokenizer ==
  decoded("CSV") =>
    LET line == decodeCell.rawValue
        fields == decodeCell.result.value
    IN  /\ Len(fields) = 1 + Cardinality({i \in 1..Len(line) : commaOutsideQuotes(line, i)})
        /\ \A k \in 1..Len(fields) :
             /\ \A i \in 1..Len(fields[k]) : fields[k][i] # QUOTE
             /\ fields[k] # <<>> =>
                  ~IsWhiteSpace(fields[k][1]) /\ ~IsWhiteSpace(fields[k][Len(fields[k])])

\* A line with a comma inside quotes and a comma outside, split in two fields.
C23_Witness ==
  /\ decoded("CSV")
  /\ \E i \in 1..Len(decodeCell.rawValue) :
       decodeCell.rawValue[i] = COMMA /\ ~commaOutsideQuotes(decodeCell.rawValue, i)
  /\ \E i \in 1..Len(decodeCell.rawValue) : commaOutsideQuotes(decodeCell.rawValue, i)
  /\ Len(decodeCell.result.value) = 2

\* The lists of question numbers partition 1..n: every listed number is in 1..n and every
\* number of 1..n is listed once.
partitions(lists, n) ==
  /\ \A c \in DOMAIN lists : \A j \in 1..Len(lists[c]) : lists[c][j] \in 1..n
  /\ \A q \in 1..n :
       Cardinality({<<c, j>> \in UNION {{<<c, j>> : j \in 1..Len(lists[c])} :
                                          c \in DOMAIN lists} : lists[c][j] = q}) = 1

\* The question numbers of the Ryff category k.
ryffNums(k) == [j \in 1..Len(ryffCategories[k].questions) |->
                  ryffCategories[k].questions[j].num]

\* C24: the question lists of SAN, Basic Ph, Personal Resources and Ryff partition 1..30,
\* 1..36, 1..13 and 1..84: every listed number is within the answer array and every
\* question is in exactly one list. So every answer is counted once: the three SAN
\* means come to a tenth of the sum of all 30 answers, the Basic Ph total is the sum of
\* all 36 answers, and the Ryff total is the sum over all 84 questions of the answer,
\* or of 7 minus the answer where the question is reversed.
C24_TablesPartition ==
  /\ partitions(<<wellbeingQuestions, activityQuestions, moodQuestions>>, 30)
  /\ partitions([c \in 1..Len(basicPhCategories) |-> basicPhCategories[c].questions], 36)
  /\ partitions(<<personalResourceSufficiencyQuestions, personalResourceCopingQuestions,
                  personalResourceExhaustionQuestions>>, 13)
  /\ partitions([k \in DOMAIN ryffCategories |-> ryffNums(k)], 84)
  /\ scored("SAN") =>
       /\ Len(scoreRun.answers) = 30
       /\ scoreRun.result.wellbeing + scoreRun.result.activity + scoreRun.result.mood
            = 10 * SumTo(scoreRun.answers, 30)
  /\ scored("BasicPh") =>
       /\ Len(scoreRun.answers) = 36
       /\ scoreRun.result.totalScore = SumTo(scoreRun.answers, 36)
  /\ scored("Ryff") =>
       /\ Len(scoreRun.answers) = 84
       /\ scoreRun.result.totalScore
            = SumTo([n \in 1..84 |->
                       IF \E k \in DOMAIN ryffCategories : \E j \in 1..14 :
                            /\ ryffCategories[k].questions[j].num = n
                            /\ ryffCategories[k].questions[j].isReversed
                       THEN 7 - scoreRun.answers[n] ELSE scoreRun.answers[n]], 84)

\* A SAN sheet whose answers differ from question to question has been averaged.
C24_Witness ==
  /\ scored("SAN")
  /\ \E n \in 1..29 : scoreRun.answers[n] # scoreRun.answers[n + 1]
  /\ scoreRun.result.wellbeing + scoreRun.result.activity + scoreRun.result.mood
       = 10 * SumTo(scoreRun.answers, 30)

\* The levels of the six Ryff categories in a scored sheet.
ryffLevels == {scoreRun.result[k].level : k \in DOMAIN ryffCategories}

\* C25: for Ryff answers in 1..6, when all six category levels are low the total level
\* is low, and when all six are high the total level is high.
C25_RyffExtremes ==
  (scored("Ryff") /\ \A n \in 1..84 : scoreRun.answers[n] \in 1..6) =>
    /\ ryffLevels = {"Low"} => scoreRun.result.totalLevel = "Low"
    /\ ryffLevels = {"High"} => scoreRun.result.totalLevel = "High"

\* A sheet with every category one point above its high threshold, total high.
C25_Witness ==
  /\ scored("Ryff")
  /\ \A k \in DOMAIN ryffCategories :
       scoreRun.result[k].score = ryffCategories[k].highThreshold + 1
  /\ ryffLevels = {"High"}
  /\ scoreRun.result.totalLevel = "High"

\* openRyffDetail has just run with the key of a Ryff category.
detailOpened ==
  /\ lastEvent.op = "openRyffDetail"
  /\ lastEvent.categoryKey \in DOMAIN ryffCategories

\* C26: after openRyffDetail(respondent, key) with the key of one of the six Ryff
\* categories the modal is shown for that respondent and category, the detail list has one
\* entry per question of the category, each with the respondent's answer and with
\* finalAnswer = 7 - rawAnswer when the question is reversed and rawAnswer otherwise, and
\* ryffDetailTotal is the score stored for that category in respondent.ryff.
C26_DetailMatchesScore ==
  detailOpened =>
    LET respondent == respondents[lastEvent.respondent]
        categoryDef == ryffCategories[lastEvent.categoryKey]
    IN  /\ showRyffDetailModal
        /\ ryffDetailRespondent = <<respondent>>
        /\ ryffDetailCategory = categoryDef.name
        /\ Len(ryffDetailQuestions) = Len(categoryDef.questions)
        /\ \A j \in 1..Len(ryffDetailQuestions) :
             /\ ryffDetailQuestions[j].num = categoryDef.questions[j].num
             /\ ryffDetailQuestions[j].isReversed = categoryDef.questions[j].isReversed
             /\ ryffDetailQuestions[j].rawAnswer
                  = respondent.ryffAnswers[categoryDef.questions[j].num]
             /\ ryffDetailQuestions[j].finalAnswer
                  = IF categoryDef.questions[j].isReversed
                    THEN 7 - ryffDetailQuestions[j].rawAnswer
                    ELSE ryffDetailQuestions[j].rawAnswer
        /\ ryffDetailTotal = respondent.ryff[lastEvent.categoryKey].score

\* The detail of the autonomy category of the second record is open: 14 entries, some
\* of them reversed with a final answer other than the raw one.
C26_Witness ==
  /\ detailOpened
  /\ lastEvent.categoryKey = "autonomy"
  /\ lastEvent.respondent = 2
  /\ Len(ryffDetailQuestions) = 14
  /\ \E j \in 1..14 :
       ryffDetailQuestions[j].isReversed
         /\ ryffDetailQuestions[j].finalAnswer # ryffDetailQuestions[j].rawAnswer
  /\ ryffDetailTotal = respondents[2].ryff.autonomy.score

\* C27: a closed modal has no respondent: openRyffDetail with a key that names no Ryff
\* category leaves showRyffDetailModal, ryffDetailRespondent, ryffDetailCategory and
\* ryffDetailQuestions as they were.
C27_ClosedModalHasNoRespondent ==
  ~showRyffDetailModal => ryffDetailRespondent = <<>>

\* The file reads started by handleFile that have not completed.
readsPending == pendingCount(pendingReads, Len(Files))

\* C28: whatever the order of handleFile calls and read completions, isLoading is true
\* while at least one read started by handleFile has not completed.
C28_LoadingWhilePending ==
  readsPending > 0 => isLoading

\* C29: whatever the order of handleFile calls, read completions and clearData, when no
\* read is pending and the result set is not empty, its records are those parsed from
\* the content of the file whose name is in fileName.
C29_RecordsOfNamedFile ==
  (readsPending = 0 /\ respondents # <<>>) =>
    \E f \in FileIds :
      /\ Files[f].name = fileName
      /\ ~fileOutcome[f].tooShort
      /\ respondents = fileOutcome[f].rows.pushed

\* C30: a handleFile call on a file whose name ends in ".csv" starts one read and sets
\* isLoading; a handleFile call on another file starts no read and changes nothing but
\* errorMessage; and when every started read completes and from some point on no file is
\* submitted, isLoading is false from some point on.
C30_LoadingEnds ==
  /\ [][lastEvent'.op = "handleFile" =>
          /\ isLoading'
          /\ readsPending' = readsPending + 1
          /\ EndsWith(Files[lastEvent'.file].name, csvSuffix)]_vars
  /\ [][lastEvent'.op = "rejected" =>
          /\ ~EndsWith(Files[lastEvent'.file].name, csvSuffix)
          /\ UNCHANGED <<respondents, fileName, isLoading, pendingReads, console>>]_vars
  /\ <>[][lastEvent'.op # "handleFile"]_vars => <>[](isLoading = FALSE)

\* Two reads were started and both have completed, the last one with an error; isLoading
\* is false.
C30_Witness ==
  /\ lastEvent.op = "onerror"
  /\ readsPending = 0
  /\ ~isLoading
  /\ fileName # <<>>

====
